---- MODULE Spec2Model ----
(***************************************************************************)
(* Model of the video-to-audio batch converter                             *)
(* (src/video_to_audio_converter.py and the src/video_to_audio package).   *)
(*                                                                         *)
(* Two state machines share this module:                                   *)
(*   SpecMerge - merge_frames_to_segments, run step by step on bounded     *)
(*               frame sequences;                                          *)
(*   Spec      - main / process_files / convert_video_to_audio with the    *)
(*               engine, the classifier and the disk as environment.       *)
(* Times are integer milliseconds (the code divides the *_MS constants by  *)
(* 1000.0 and works in float seconds; rounding of floats is not modelled). *)
(***************************************************************************)
EXTENDS Integers, Sequences, FiniteSets, TLC

VARIABLES
    \* ---- merge_frames_to_segments (SpecMerge)
    frame_results,   \* the argument
    mpc,             \* position in the function
    segments,        \* local `segments` / `merged`
    remerged,        \* result of a second run on the encoded first result
    thresholds,      \* the TEN_VAD_*_MS settings the function reads
    \* ---- environment of a batch
    engine_env,      \* sys.platform and which ffmpeg binaries exist
    preferences,     \* the preferences dict
    disk,            \* names of the files that exist in the directory
    log_faulty,      \* whether opening or writing log.txt can fail
    \* ---- main / process_files
    main_pc,         \* position in main
    video_files,     \* result of find_video_files
    file_index,      \* loop index i of process_files (1-based)
    errors,          \* process_files: the list of (filename, error)
    convert_calls,   \* history: file names convert_video_to_audio was called on
    job_results,     \* history: the tuple each call returned
    exit_status,     \* the exit status of the process once main has ended
    \* ---- convert_video_to_audio (the current job)
    job_pc,          \* position in convert_video_to_audio
    temp_files,      \* local temp_files
    result,          \* the (success, error) tuple being returned
    calls,           \* history: stage invocations of the current job
    engine_runs,     \* history: subprocess.run calls of the current job
    cleanup_failed,  \* history: an unlink of cleanup_temp_files raised
    \* ---- TEN VAD
    ten_vad_instance, \* global _ten_vad_instance
    vad_inits,        \* history: number of TenVad(...) constructions
    ml_frames,        \* detect_speech_segments_ten_vad: local frame_results
    ml_segments,      \* apply_ten_vad: local segments
    concat_cmds,      \* history: the concat_cmd lists apply_ten_vad ran in this job
    ml_warning,       \* the "TEN VAD failed: ..." text printed by the job
    log_writes,       \* history: what this job did to log.txt, [mode, lines]
    log_warned,       \* history: "Warning: Failed to log probabilities" was printed
    \* ---- run_ffmpeg_command (SpecRun)
    run_pc,           \* position in run_ffmpeg_command
    proc_stderr,      \* the lines the engine process has written to stderr
    proc_returncode,  \* result.returncode
    run_result        \* the (success, error_message) tuple returned

mergeVars == <<frame_results, mpc, segments, remerged, thresholds>>

envVars == <<engine_env, preferences, log_faulty>>

batchVars == <<main_pc, video_files, file_index, errors, convert_calls, job_results,
              exit_status>>

jobVars == <<job_pc, temp_files, result, calls, engine_runs, cleanup_failed>>

mlVars == <<ten_vad_instance, vad_inits, ml_frames, ml_segments, concat_cmds, ml_warning>>

logVars == <<log_writes, log_warned>>

orchVars == <<envVars, disk, batchVars, jobVars, mlVars, logVars>>

runVars == <<run_pc, proc_stderr, proc_returncode, run_result>>

vars == <<mergeVars, orchVars, runVars>>

----------------------------------------------------------------------------
(* Configuration constants                                                 *)

TEN_VAD_MIN_SPEECH_DURATION_MS == 250

TEN_VAD_MIN_SILENCE_DURATION_MS == 250

TEN_VAD_SPEECH_PAD_MS == 1000

TEN_VAD_THRESHOLD_PCT == 50

----------------------------------------------------------------------------
(* Bounds of the merge model                                               *)

MaxFrames == 5

\* first timestamp of a frame sequence (the detector itself always starts at 0)
FirstTimes == {0, 125}

\* distance between two consecutive frame timestamps
FrameDeltas == {125, 250, 2000, 2125}

\* classifier probabilities in percent; is_voice is probability >= threshold
FrameProbs == {10, 90}

\* frame distances of the runs with other settings: one hop of 256 samples at
\* 16 kHz is 16 ms
HopDeltas == {16, 32}

\* settings the function is run with when they are treated as parameters
SpeechSettings == {0, 32}

SilenceSettings == {0, 16, 20, 48}

PadSettings == {0, 16}

----------------------------------------------------------------------------
(* merge_frames_to_segments, one operator per step of the function         *)

Max(a, b) == IF a >= b THEN a ELSE b

Min(a, b) == IF a <= b THEN a ELSE b

\* `current_segment_start is None`
NoStart == -1

\* Step 1 loop: state is <<segments, current_segment_start>>
RECURSIVE ScanFrames(_, _, _, _)
ScanFrames(frames, i, segs, cur) ==
    IF i > Len(frames) THEN <<segs, cur>>
    ELSE LET timestamp == frames[i][1]
             is_voice  == frames[i][3]
         IN  IF is_voice /\ cur = NoStart
               THEN ScanFrames(frames, i + 1, segs, timestamp)
             ELSE IF ~is_voice /\ cur # NoStart
               THEN ScanFrames(frames, i + 1, Append(segs, <<cur, timestamp>>), NoStart)
             ELSE ScanFrames(frames, i + 1, segs, cur)

\* Step 1 with the segment that extends to the end of the audio
VoiceRegions(frames) ==
    LET r == ScanFrames(frames, 1, <<>>, NoStart)
    IN  IF r[2] # NoStart
          THEN Append(r[1], <<r[2], frames[Len(frames)][1]>>)
          ELSE r[1]

FilterShortKeepAll(segs, min_duration) == segs

FilterShortStrict(segs, min_duration) ==
    SelectSeq(segs, LAMBDA s : (s[2] - s[1]) > min_duration)

\* Step 2: drop segments shorter than the minimum speech duration
FilterShort(segs, min_duration) ==
    SelectSeq(segs, LAMBDA s : (s[2] - s[1]) >= min_duration)

RECURSIVE MergeCloseStrictFrom(_, _, _, _)
MergeCloseStrictFrom(segs, i, merged, max_silence) ==
    IF i > Len(segs) THEN merged
    ELSE LET start == segs[i][1]
             end   == segs[i][2]
             n     == Len(merged)
         IN  IF n > 0 /\ (start - merged[n][2]) < max_silence
               THEN MergeCloseStrictFrom(segs, i + 1,
                        [merged EXCEPT ![n] = <<merged[n][1], end>>], max_silence)
               ELSE MergeCloseStrictFrom(segs, i + 1,
                        Append(merged, <<start, end>>), max_silence)

MergeCloseStrict(segs, max_silence) ==
    MergeCloseStrictFrom(segs, 1, <<>>, max_silence)

RECURSIVE MergeCloseFarFrom(_, _, _, _)
MergeCloseFarFrom(segs, i, merged, max_silence) ==
    IF i > Len(segs) THEN merged
    ELSE LET start == segs[i][1]
             end   == segs[i][2]
             n     == Len(merged)
         IN  IF n > 0 /\ (start - merged[n][2]) >= max_silence
               THEN MergeCloseFarFrom(segs, i + 1,
                        [merged EXCEPT ![n] = <<merged[n][1], end>>], max_silence)
               ELSE MergeCloseFarFrom(segs, i + 1,
                        Append(merged, <<start, end>>), max_silence)

MergeCloseFar(segs, max_silence) == MergeCloseFarFrom(segs, 1, <<>>, max_silence)

RECURSIVE MergeCloseFrom(_, _, _, _)
MergeCloseFrom(segs, i, merged, max_silence) ==
    IF i > Len(segs) THEN merged
    ELSE LET start == segs[i][1]
             end   == segs[i][2]
             n     == Len(merged)
         IN  IF n > 0 /\ (start - merged[n][2]) <= max_silence
               THEN MergeCloseFrom(segs, i + 1,
                        [merged EXCEPT ![n] = <<merged[n][1], end>>], max_silence)
               ELSE MergeCloseFrom(segs, i + 1,
                        Append(merged, <<start, end>>), max_silence)

\* Step 3: merge segments separated by at most the minimum silence duration
MergeClose(segs, max_silence) == MergeCloseFrom(segs, 1, <<>>, max_silence)

PadSegmentsInward(segs, pad, total_duration) ==
    [i \in 1..Len(segs) |->
        <<Max(0, segs[i][1] + pad), Min(segs[i][2] - pad, total_duration)>>]

PadSegmentsUnclamped(segs, pad, total_duration) ==
    [i \in 1..Len(segs) |-> <<segs[i][1] - pad, segs[i][2] + pad>>]

\* Step 4: pad both ends, clamped to [0, total_duration]
PadSegments(segs, pad, total_duration) ==
    [i \in 1..Len(segs) |->
        <<Max(0, segs[i][1] - pad), Min(segs[i][2] + pad, total_duration)>>]

RECURSIVE MergeOverlappingStrictFrom(_, _, _)
MergeOverlappingStrictFrom(segs, i, merged) ==
    IF i > Len(segs) THEN merged
    ELSE LET start == segs[i][1]
             end   == segs[i][2]
             n     == Len(merged)
         IN  IF n > 0 /\ start < merged[n][2]
               THEN MergeOverlappingStrictFrom(segs, i + 1,
                        [merged EXCEPT ![n] = <<merged[n][1], Max(end, merged[n][2])>>])
               ELSE MergeOverlappingStrictFrom(segs, i + 1, Append(merged, <<start, end>>))

MergeOverlappingStrict(segs) == MergeOverlappingStrictFrom(segs, 1, <<>>)

RECURSIVE MergeOverlappingFrom(_, _, _)
MergeOverlappingFrom(segs, i, merged) ==
    IF i > Len(segs) THEN merged
    ELSE LET start == segs[i][1]
             end   == segs[i][2]
             n     == Len(merged)
         IN  IF n > 0 /\ start <= merged[n][2]
               THEN MergeOverlappingFrom(segs, i + 1,
                        [merged EXCEPT ![n] = <<merged[n][1], Max(end, merged[n][2])>>])
               ELSE MergeOverlappingFrom(segs, i + 1, Append(merged, <<start, end>>))

\* Step 5: merge the overlaps that padding created
MergeOverlapping(segs) == MergeOverlappingFrom(segs, 1, <<>>)

\* total_duration = frame_results[-1][0] if frame_results else 0
TotalDuration(frames) == IF Len(frames) > 0 THEN frames[Len(frames)][1] ELSE 0

\* the steps 2 and 3 in the other order: close runs merged, then the filter
MergeFramesMergeFirst(frames, min_speech, min_silence, pad) ==
    IF Len(frames) = 0 THEN <<>>
    ELSE MergeOverlapping(
             PadSegments(
                 FilterShort(MergeClose(VoiceRegions(frames), min_silence), min_speech),
                 pad, TotalDuration(frames)))

\* the whole function with the thresholds as parameters
MergeFramesWith(frames, min_speech, min_silence, pad) ==
    IF Len(frames) = 0 THEN <<>>
    ELSE MergeOverlapping(
             PadSegments(
                 MergeClose(FilterShort(VoiceRegions(frames), min_speech), min_silence),
                 pad, TotalDuration(frames)))

merge_frames_to_segments(frames) ==
    MergeFramesWith(frames, TEN_VAD_MIN_SPEECH_DURATION_MS,
                    TEN_VAD_MIN_SILENCE_DURATION_MS, TEN_VAD_SPEECH_PAD_MS)

\* min_duration_sec, max_silence_sec and pad_sec as the module configures them
ConfiguredThresholds ==
    [min_speech  |-> TEN_VAD_MIN_SPEECH_DURATION_MS,
     min_silence |-> TEN_VAD_MIN_SILENCE_DURATION_MS,
     pad         |-> TEN_VAD_SPEECH_PAD_MS]

----------------------------------------------------------------------------
(* Encoding of a segment list as frames over the timeline of `frames`:     *)
(* a frame is voice exactly when its timestamp lies in some [start, end).  *)

InSomeSegment(t, segs) ==
    \E k \in 1..Len(segs) : segs[k][1] <= t /\ t < segs[k][2]

EncodeAsFrames(segs, frames) ==
    [i \in 1..Len(frames) |->
        IF InSomeSegment(frames[i][1], segs)
          THEN <<frames[i][1], 90, TRUE>>
          ELSE <<frames[i][1], 10, FALSE>>]

----------------------------------------------------------------------------
(* File names and paths.  A name is <<stem, suffix>> (Path.stem and         *)
(* Path.suffix); every file of a batch lies in the one scanned directory.  *)

Stem(p) == p[1]

Suffix(p) == p[2]

SUPPORTED_VIDEO_EXTENSIONS ==
    {".mp4", ".mov", ".avi", ".mkv", ".webm", ".flv", ".wmv", ".m4v", ".mpg",
     ".mpeg", ".3gp", ".ogv", ".ts", ".mts", ".m2ts", ".vob", ".divx", ".f4v"}

OUTPUT_EXTENSION == ".m4a"

\* str.lower() on the strings that occur in the model's file names
Lower(s) ==
    CASE s = "B" -> "b"
      [] s = ".MKV" -> ".mkv"
      [] OTHER -> s

\* p.name.lower()
LowerName(p) == Lower(Stem(p)) \o Lower(Suffix(p))

\* the lower-cased names of the model in ascending string order
NameOrder == <<"a.mkv", "a.mp4", "b.mkv", "notes.txt">>

SortKey(p) == CHOOSE k \in 1..Len(NameOrder) : NameOrder[k] = LowerName(p)

\* the names of the model in ascending order of the strings as they are
RawNameOrder == <<"B.MKV", "a.mkv", "a.mp4", "notes.txt">>

RawKey(p) == CHOOSE k \in 1..Len(RawNameOrder) : RawNameOrder[k] = Stem(p) \o Suffix(p)

SortByNameRaw(S) ==
    CHOOSE f \in [1..Cardinality(S) -> S] :
        /\ \A x \in S : \E i \in 1..Cardinality(S) : f[i] = x
        /\ \A i, j \in 1..Cardinality(S) : i < j => RawKey(f[i]) < RawKey(f[j])

\* video_files.sort(key=lambda p: p.name.lower())
RECURSIVE SortByName(_)
SortByName(S) ==
    IF S = {} THEN <<>>
    ELSE LET first == CHOOSE x \in S : \A y \in S : SortKey(x) <= SortKey(y)
         IN  <<first>> \o SortByName(S \ {first})

find_video_files(listing) ==
    SortByName({p \in listing : Lower(Suffix(p)) \in SUPPORTED_VIDEO_EXTENSIONS})

get_output_path(input_path) == <<Stem(input_path) \o "_audio", OUTPUT_EXTENSION>>

\* one temporary name for both numbers
get_temp_path_unnumbered(base_path, temp_number) == <<Stem(base_path) \o ".temp", ".m4a">>

get_temp_path(base_path, temp_number) ==
    IF temp_number = 1 THEN <<Stem(base_path) \o ".temp1", ".m4a">>
    ELSE <<Stem(base_path) \o ".temp2", ".m4a">>

\* audio_path.replace('.m4a', '_16k_temp.wav')
Temp16kPath(audio_path) ==
    IF Suffix(audio_path) = ".m4a"
      THEN <<Stem(audio_path) \o "_16k_temp", ".wav">>
      ELSE audio_path

----------------------------------------------------------------------------
(* Engine resolution and command builders                                  *)

\* the bundled binary first and the installed one only without it
get_ffmpeg_path_bundled_first(env) ==
    IF env.platform \notin {"win32", "darwin", "linux"}
      THEN [ok |-> FALSE, value |-> "Unsupported platform"]
    ELSE IF env.bundled
      THEN [ok |-> TRUE,
            value |-> IF env.platform = "win32" THEN "bundled/ffmpeg.exe"
                      ELSE "bundled/ffmpeg"]
    ELSE IF env.usr_bin \/ env.usr_local_bin
      THEN [ok |-> TRUE, value |-> "ffmpeg"]
    ELSE [ok |-> FALSE, value |-> "FFmpeg binary not found at bundled path"]

\* [ok |-> TRUE, value |-> path]  or  [ok |-> FALSE, value |-> str(exception)]
get_ffmpeg_path(env) ==
    IF env.platform \notin {"win32", "darwin", "linux"}
      THEN [ok |-> FALSE, value |-> "Unsupported platform"]
    ELSE LET ffmpeg ==
               IF env.platform = "win32" THEN "bundled/ffmpeg.exe"
               ELSE IF env.platform = "darwin" THEN "bundled/ffmpeg"
               ELSE IF ~env.usr_bin /\ ~env.usr_local_bin THEN "bundled/ffmpeg"
               ELSE "ffmpeg"
         IN  IF env.platform = "linux" /\ ffmpeg = "ffmpeg"
               THEN [ok |-> TRUE, value |-> "ffmpeg"]
             ELSE IF ~env.bundled
               THEN [ok |-> FALSE, value |-> "FFmpeg binary not found at bundled path"]
             ELSE [ok |-> TRUE, value |-> ffmpeg]

\* the track number used as the stream index as it is
build_base_conversion_command_one_based(ffmpeg_path, input_file, output_file, audio_track) ==
    [op |-> "Extract", ffmpeg |-> ffmpeg_path, input |-> input_file,
     output |-> output_file, map |-> <<"0:a:", audio_track>>]

\* track_index = audio_track - 1;  '-map', f'0:a:{track_index}'
build_base_conversion_command(ffmpeg_path, input_file, output_file, audio_track) ==
    [op |-> "Extract", ffmpeg |-> ffmpeg_path, input |-> input_file,
     output |-> output_file, map |-> <<"0:a:", audio_track - 1>>]

build_silence_removal_command(ffmpeg_path, input_file, output_file) ==
    [op |-> "SilenceRemove", ffmpeg |-> ffmpeg_path, input |-> input_file,
     output |-> output_file, af |-> "silenceremove"]

build_normalization_command(ffmpeg_path, input_file, output_file) ==
    [op |-> "Normalize", ffmpeg |-> ffmpeg_path, input |-> input_file,
     output |-> output_file, af |-> "loudnorm"]

\* one clip from the first start to the last end
ConcatFilterOneClip(segs) ==
    [clips  |-> << [src |-> "0:a", start |-> segs[1][1],
                    end |-> segs[Len(segs)][2], label |-> 0] >>,
     inputs |-> <<0>>,
     n      |-> 1]

\* filter_complex: per segment i (from 0) the clip
\* [0:a]atrim=start=..:end=..,asetpts=PTS-STARTPTS[a{i}], then
\* [a0][a1]...concat=n={len(segments)}:v=0:a=1[out]
ConcatFilter(segs) ==
    [clips  |-> [i \in 1..Len(segs) |->
                   [src |-> "0:a", start |-> segs[i][1], end |-> segs[i][2],
                    label |-> i - 1]],
     inputs |-> [i \in 1..Len(segs) |-> i - 1],
     n      |-> Len(segs)]

\* concat_cmd of apply_ten_vad
ConcatCommand(ffmpeg_path, input_audio_path, output_path, segs) ==
    [ffmpeg |-> ffmpeg_path, input |-> input_audio_path,
     filter_complex |-> ConcatFilter(segs), map |-> "[out]",
     output |-> output_path]

\* the call apply_ten_vad(input_audio_path, output_path, ffmpeg_path, ...)
MLSegmentCall(ffmpeg_path, input_file, output_file) ==
    [op |-> "MLSegment", ffmpeg |-> ffmpeg_path, input |-> input_file,
     output |-> output_file]

----------------------------------------------------------------------------
(* convert_video_to_audio: the four branches of the pipeline               *)

\* error texts are sequences of string parts; <<>> is the empty string
Success == <<TRUE, <<>>>>

StageFailureNoDiagnostic(label, error) == <<FALSE, <<label>>>>

\* return False, f"{label}: {error}"
StageFailure(label, error) == <<FALSE, <<label, ": ">> \o error>>

\* an exception taken for a normal end of the function
CaughtExceptionAsSuccess(text) == <<TRUE, <<text>>>>

\* except Exception as e: return False, str(e)
CaughtException(text) == <<FALSE, <<text>>>>

Pipeline(prefs) ==
    IF prefs.remove_silence /\ prefs.normalize_audio THEN "three"
    ELSE IF prefs.remove_silence THEN "silence"
    ELSE IF prefs.normalize_audio THEN "normalize"
    ELSE "single"

TempFilesOfFirstOnly(branch, output_path) ==
    IF branch = "single" THEN <<>> ELSE <<get_temp_path(output_path, 1)>>

\* temp_files = [temp1, temp2] / [temp1] of the branch
TempFilesOf(branch, output_path) ==
    CASE branch = "three" -> <<get_temp_path(output_path, 1), get_temp_path(output_path, 2)>>
      [] branch = "silence" -> <<get_temp_path(output_path, 1)>>
      [] branch = "normalize" -> <<get_temp_path(output_path, 1)>>
      [] OTHER -> <<>>

\* output_file of build_base_conversion_command
ExtractTarget(branch, output_path) ==
    IF branch = "single" THEN output_path ELSE get_temp_path(output_path, 1)

ExtractLabelAlwaysBase(branch) == "Base conversion failed"

\* the label of a failed base conversion: line 841 in the single-step
\* branch, lines 752, 791 and 824 in the others
ExtractLabel(branch) ==
    IF branch = "single" THEN "Conversion failed" ELSE "Base conversion failed"

\* input of the silence step (ML segmenter, its fallback, built-in command)
SilenceInput(branch, output_path) == get_temp_path(output_path, 1)

\* output of the silence step
SilenceTarget(branch, output_path) ==
    IF branch = "three" THEN get_temp_path(output_path, 2) ELSE output_path

NormalizeInputTemp1(branch, output_path) == get_temp_path(output_path, 1)

\* input_file of build_normalization_command
NormalizeInput(branch, output_path) ==
    IF branch = "three" THEN get_temp_path(output_path, 2)
    ELSE get_temp_path(output_path, 1)

AfterExtractBuiltinOnly(branch, prefs) ==
    IF branch \in {"three", "silence"} THEN "silence"
    ELSE IF branch = "normalize" THEN "normalize"
    ELSE "return_true"

AfterExtractAlwaysML(branch, prefs) ==
    IF branch \in {"three", "silence"} THEN "ml_load"
    ELSE IF branch = "normalize" THEN "normalize"
    ELSE "return_true"

\* where the function goes after a successful Extract
AfterExtract(branch, prefs) ==
    IF branch \in {"three", "silence"}
      THEN IF prefs.use_silero_vad THEN "ml_load" ELSE "silence"
    ELSE IF branch = "normalize" THEN "normalize"
    ELSE "return_true"

\* where the function goes after a successful silence step
AfterSilence(branch) ==
    IF branch = "three" THEN "normalize" ELSE "return_true"

----------------------------------------------------------------------------
(* Environment: what an engine process can do                              *)

\* relevant_error returned by run_ffmpeg_command for a failed run
Diagnostics == {<<"stderr tail">>, <<"FFmpeg binary not found">>}

\* ok: exit code 0 (needs a readable input); wrote: the output file exists
\* afterwards (a failed run may leave a partial file)
EngineOutcomes(readable) ==
    (IF readable THEN {[ok |-> TRUE, error |-> <<>>, wrote |-> TRUE]} ELSE {})
    \cup {[ok |-> FALSE, error |-> d, wrote |-> w] : d \in Diagnostics, w \in BOOLEAN}

\* frame sequences the classifier loop can produce in the batch model
VadOutputs ==
    { <<>>,
      << <<0, 10, FALSE>>, <<250, 10, FALSE>> >>,
      << <<0, 90, TRUE>>, <<125, 10, FALSE>> >>,
      << <<0, 90, TRUE>>, <<250, 10, FALSE>> >>,
      << <<0, 90, TRUE>>, <<250, 10, FALSE>>, <<2375, 90, TRUE>>, <<2625, 10, FALSE>> >> }

\* bound on the number of video files in the scanned directory
MaxFiles == 2

VideoNames == {<<"a", ".mp4">>, <<"B", ".MKV">>, <<"a", ".mkv">>}

OtherNames == {<<"notes", ".txt">>}

Listings == {V \cup OtherNames : V \in {W \in SUBSET VideoNames : Cardinality(W) <= MaxFiles}}

EngineEnvs ==
    { [platform |-> "linux", usr_bin |-> TRUE, usr_local_bin |-> FALSE, bundled |-> FALSE],
      [platform |-> "win32", usr_bin |-> FALSE, usr_local_bin |-> FALSE, bundled |-> FALSE],
      [platform |-> "freebsd", usr_bin |-> TRUE, usr_local_bin |-> FALSE, bundled |-> FALSE] }

AudioTracks == {1, 2}

AllPreferences ==
    [remove_silence : BOOLEAN, use_silero_vad : BOOLEAN, normalize_audio : BOOLEAN,
     audio_track : AudioTracks]

----------------------------------------------------------------------------
(* run_ffmpeg_command.  A text is the sequence str.split('\n') gives: the   *)
(* empty text is <<"">>, and a text that ends in a newline has "" as its   *)
(* last element.  A line is its content; "" is a blank line.               *)

MaxStderrLines == 8

\* what the engine may write as one line of stderr
StderrLines == {"", "error", "hint"}

ReturnCodes == {0, 1}

\* `error_lines[-5:]` and `len(error_lines) > 5`
ERROR_TAIL_LINES == 5

\* result.stderr: every line the process wrote, each ended by a newline
StderrText(lines) == Append(lines, "")

\* str.strip() on a text: blank lines at both ends go (whitespace inside
\* the first and last line is not modelled)
Strip(text) ==
    LET kept == {k \in 1..Len(text) : text[k] # ""}
    IN  IF kept = {} THEN <<"">>
        ELSE SubSeq(text, CHOOSE k \in kept : \A j \in kept : k <= j,
                          CHOOSE k \in kept : \A j \in kept : k >= j)

\* lines[-n:]
LastLines(lines, n) ==
    IF Len(lines) <= n THEN lines ELSE SubSeq(lines, Len(lines) - n + 1, Len(lines))

run_ffmpeg_command_head(returncode, stderr) ==
    IF returncode = 0 THEN <<TRUE, <<"">>>>
    ELSE LET error_lines == Strip(stderr)
         IN  <<FALSE, IF Len(error_lines) > ERROR_TAIL_LINES
                        THEN SubSeq(error_lines, 1, ERROR_TAIL_LINES)
                        ELSE error_lines>>

\* the function after subprocess.run returned (returncode, stderr)
run_ffmpeg_command(returncode, stderr) ==
    IF returncode = 0 THEN <<TRUE, <<"">>>>
    ELSE LET error_lines == Strip(stderr)
         IN  <<FALSE, IF Len(error_lines) > ERROR_TAIL_LINES
                        THEN LastLines(error_lines, ERROR_TAIL_LINES)
                        ELSE error_lines>>

\* the exceptions subprocess.run raises when the process cannot be started
LaunchErrors == {"FileNotFoundError", "PermissionError"}

RunInit ==
    /\ run_pc = "running"
    /\ proc_stderr = <<>>
    /\ proc_returncode = 0
    /\ run_result = <<TRUE, <<"">>>>

\* the engine process writes one more line to the captured stderr
Proc_WriteStderr ==
    /\ run_pc = "running"
    /\ Len(proc_stderr) < MaxStderrLines
    /\ \E line \in StderrLines : proc_stderr' = Append(proc_stderr, line)
    /\ UNCHANGED <<run_pc, proc_returncode, run_result>>
    /\ UNCHANGED <<mergeVars, orchVars>>

\* the process exits: subprocess.run returns and the function classifies
RFC_Classify ==
    /\ run_pc = "running"
    /\ \E rc \in ReturnCodes :
         /\ proc_returncode' = rc
         /\ run_result' = run_ffmpeg_command(rc, StderrText(proc_stderr))
    /\ run_pc' = "returned"
    /\ UNCHANGED proc_stderr
    /\ UNCHANGED <<mergeVars, orchVars>>

\* subprocess.run raises before any process ran: the two except clauses
RFC_LaunchFails ==
    /\ run_pc = "running"
    /\ proc_stderr = <<>>
    /\ \E e \in LaunchErrors :
         run_result' = <<FALSE, IF e = "FileNotFoundError"
                                  THEN <<"FFmpeg binary not found">>
                                  ELSE <<e>> >>
    /\ run_pc' = "raised"
    /\ UNCHANGED <<proc_stderr, proc_returncode>>
    /\ UNCHANGED <<mergeVars, orchVars>>

----------------------------------------------------------------------------
(* State machine of one call of merge_frames_to_segments                   *)

MergeInit ==
    /\ frame_results = <<>>
    /\ mpc = "input"
    /\ segments = <<>>
    /\ remerged = <<>>
    /\ thresholds = ConfiguredThresholds

\* the classifier loop appends one (timestamp, probability, is_voice) tuple
AppendFrame ==
    /\ mpc = "input"
    /\ Len(frame_results) < MaxFrames
    /\ \E p \in FrameProbs :
         \E t \in (IF Len(frame_results) = 0 THEN FirstTimes
                   ELSE {frame_results[Len(frame_results)][1] + d : d \in FrameDeltas}) :
            frame_results' = Append(frame_results, <<t, p, p >= TEN_VAD_THRESHOLD_PCT>>)
    /\ UNCHANGED <<mpc, segments, remerged, thresholds>>
    /\ UNCHANGED orchVars
    /\ UNCHANGED runVars

\* `if not frame_results: return []`, else Step 1
MergeStep1 ==
    /\ mpc = "input"
    /\ IF Len(frame_results) = 0
         THEN mpc' = "returned" /\ segments' = <<>>
         ELSE mpc' = "step2" /\ segments' = VoiceRegions(frame_results)
    /\ UNCHANGED <<frame_results, remerged, thresholds>>
    /\ UNCHANGED orchVars
    /\ UNCHANGED runVars

MergeStep2 ==
    /\ mpc = "step2"
    /\ segments' = FilterShort(segments, TEN_VAD_MIN_SPEECH_DURATION_MS)
    /\ mpc' = "step3"
    /\ UNCHANGED <<frame_results, remerged, thresholds>>
    /\ UNCHANGED orchVars
    /\ UNCHANGED runVars

MergeStep3 ==
    /\ mpc = "step3"
    /\ segments' = MergeClose(segments, TEN_VAD_MIN_SILENCE_DURATION_MS)
    /\ mpc' = "step4"
    /\ UNCHANGED <<frame_results, remerged, thresholds>>
    /\ UNCHANGED orchVars
    /\ UNCHANGED runVars

MergeStep4 ==
    /\ mpc = "step4"
    /\ segments' = PadSegments(segments, TEN_VAD_SPEECH_PAD_MS, TotalDuration(frame_results))
    /\ mpc' = "step5"
    /\ UNCHANGED <<frame_results, remerged, thresholds>>
    /\ UNCHANGED orchVars
    /\ UNCHANGED runVars

MergeStep5 ==
    /\ mpc = "step5"
    /\ segments' = MergeOverlapping(segments)
    /\ mpc' = "returned"
    /\ UNCHANGED <<frame_results, remerged, thresholds>>
    /\ UNCHANGED orchVars
    /\ UNCHANGED runVars

\* a second call on the first call's result, encoded over the same timeline
MergeAgain ==
    /\ mpc = "returned"
    /\ remerged' = merge_frames_to_segments(EncodeAsFrames(segments, frame_results))
    /\ mpc' = "remerged"
    /\ UNCHANGED <<frame_results, segments, thresholds>>
    /\ UNCHANGED orchVars
    /\ UNCHANGED runVars

----------------------------------------------------------------------------
(* merge_frames_to_segments run with other settings of the three           *)
(* TEN_VAD_*_MS values                                                     *)

AllThresholds ==
    [min_speech : SpeechSettings, min_silence : SilenceSettings, pad : PadSettings]

SettingsInit ==
    /\ frame_results = <<>>
    /\ mpc = "input"
    /\ segments = <<>>
    /\ remerged = <<>>
    /\ thresholds \in AllThresholds

\* the classifier loop on the 16 ms hop grid, starting at 0
AppendHopFrame ==
    /\ mpc = "input"
    /\ Len(frame_results) < MaxFrames
    /\ \E p \in FrameProbs :
         \E t \in (IF Len(frame_results) = 0 THEN {0}
                   ELSE {frame_results[Len(frame_results)][1] + d : d \in HopDeltas}) :
            frame_results' = Append(frame_results, <<t, p, p >= TEN_VAD_THRESHOLD_PCT>>)
    /\ UNCHANGED <<mpc, segments, remerged, thresholds>>
    /\ UNCHANGED orchVars
    /\ UNCHANGED runVars

\* one whole call under the settings in force
MergeWithSettings ==
    /\ mpc = "input"
    /\ segments' = MergeFramesWith(frame_results, thresholds.min_speech,
                                   thresholds.min_silence, thresholds.pad)
    /\ mpc' = "returned"
    /\ UNCHANGED <<frame_results, remerged, thresholds>>
    /\ UNCHANGED orchVars
    /\ UNCHANGED runVars

----------------------------------------------------------------------------
(* The batch: main, process_files and convert_video_to_audio               *)

\* the process is still running
NoExit == -1

AfterDiscoveryAlwaysProcess(files) == "process"

\* main: `if not video_files:` prints "No video files found in directory."
\* and calls sys.exit(0); else process_files is called
AfterDiscovery(files) == IF files = <<>> THEN "exit" ELSE "process"

ExitStatusNoFilesOne(pc) ==
    IF pc = "exit" THEN 1
    ELSE IF pc = "done" THEN 0
    ELSE NoExit

\* the exit status by the place where main ends: sys.exit(0) when no file
\* was found, 0 when main returns after the summary
ExitStatus(pc) ==
    IF pc = "exit" THEN 0
    ELSE IF pc = "done" THEN 0
    ELSE NoExit

OrchInit ==
    /\ engine_env \in EngineEnvs
    /\ preferences \in AllPreferences
    /\ disk \in Listings
    /\ main_pc = "find"
    /\ video_files = <<>>
    /\ file_index = 1
    /\ errors = <<>>
    /\ convert_calls = <<>>
    /\ job_results = <<>>
    /\ exit_status = NoExit
    /\ job_pc = "idle"
    /\ temp_files = <<>>
    /\ result = Success
    /\ calls = <<>>
    /\ engine_runs = 0
    /\ cleanup_failed = FALSE
    /\ ten_vad_instance = "None"
    /\ vad_inits = 0
    /\ ml_frames = <<>>
    /\ concat_cmds = <<>>
    /\ ml_segments = <<>>
    /\ ml_warning = <<>>
    /\ log_faulty = FALSE
    /\ log_writes = <<>>
    /\ log_warned = FALSE

\* the job's locals, derived from the loop position
InputPath == video_files[file_index]

OutputPath == get_output_path(InputPath)

FfmpegPath == get_ffmpeg_path(engine_env).value

Branch == Pipeline(preferences)

\* main up to the call of process_files: discovery, and sys.exit(0) when
\* nothing was found
Main_FindVideoFiles ==
    /\ main_pc = "find"
    /\ video_files' = find_video_files(disk)
    /\ main_pc' = AfterDiscovery(find_video_files(disk))
    /\ exit_status' = ExitStatus(AfterDiscovery(find_video_files(disk)))
    /\ UNCHANGED <<file_index, errors, convert_calls, job_results>>
    /\ UNCHANGED <<envVars, disk, jobVars, mlVars, mergeVars>>
    /\ UNCHANGED runVars
    /\ UNCHANGED logVars

\* process_files: loop head, calls convert_video_to_audio on the next file
PF_CallConvert ==
    /\ main_pc = "process"
    /\ job_pc = "idle"
    /\ file_index <= Len(video_files)
    /\ convert_calls' = Append(convert_calls, InputPath)
    /\ job_pc' = "resolve"
    /\ temp_files' = <<>>
    /\ result' = Success
    /\ calls' = <<>>
    /\ engine_runs' = 0
    /\ cleanup_failed' = FALSE
    /\ ml_frames' = <<>>
    /\ concat_cmds' = <<>>
    /\ ml_segments' = <<>>
    /\ ml_warning' = <<>>
    /\ UNCHANGED <<main_pc, video_files, file_index, errors, job_results, exit_status>>
    /\ UNCHANGED <<envVars, disk, ten_vad_instance, vad_inits, mergeVars>>
    /\ UNCHANGED runVars
    /\ log_writes' = <<>>
    /\ log_warned' = FALSE

CollectErrorOverwrite(errs, name, res) ==
    IF res[1] THEN errs ELSE <<<<name, res[2]>>>>

CollectErrorInverted(errs, name, res) ==
    IF res[1] THEN Append(errs, <<name, res[2]>>) ELSE errs

\* `if success: ... else: errors.append((video_file.name, error_msg))`
CollectError(errs, name, res) ==
    IF res[1] THEN errs ELSE Append(errs, <<name, res[2]>>)

\* process_files: the call returned (its locals are gone); record a failure
\* and go to the next file
PF_Collect ==
    /\ main_pc = "process"
    /\ job_pc = "returned"
    /\ errors' = CollectError(errors, InputPath, result)
    /\ job_results' = Append(job_results, result)
    /\ file_index' = file_index + 1
    /\ job_pc' = "idle"
    /\ temp_files' = <<>>
    /\ result' = Success
    /\ calls' = <<>>
    /\ engine_runs' = 0
    /\ cleanup_failed' = FALSE
    /\ ml_frames' = <<>>
    /\ concat_cmds' = <<>>
    /\ ml_warning' = <<>>
    /\ UNCHANGED <<main_pc, video_files, convert_calls, exit_status>>
    /\ UNCHANGED <<ten_vad_instance, vad_inits, ml_segments>>
    /\ UNCHANGED <<envVars, disk, mergeVars>>
    /\ UNCHANGED runVars
    /\ log_writes' = <<>>
    /\ log_warned' = FALSE

\* process_files returns errors; main shows the summary and returns
Main_Summary ==
    /\ main_pc = "process"
    /\ job_pc = "idle"
    /\ file_index > Len(video_files)
    /\ main_pc' = "done"
    /\ exit_status' = ExitStatus("done")
    /\ UNCHANGED <<video_files, file_index, errors, convert_calls, job_results>>
    /\ UNCHANGED <<envVars, disk, jobVars, mlVars, mergeVars>>
    /\ UNCHANGED runVars
    /\ UNCHANGED logVars

\* convert_video_to_audio up to the first stage: get_ffmpeg_path (which may
\* raise into `except Exception`), the paths and the choice of the branch
CV_Resolve ==
    /\ job_pc = "resolve"
    /\ IF get_ffmpeg_path(engine_env).ok
         THEN /\ temp_files' = TempFilesOf(Branch, OutputPath)
              /\ job_pc' = "extract"
              /\ UNCHANGED result
         ELSE /\ result' = CaughtException(get_ffmpeg_path(engine_env).value)
              /\ job_pc' = "finally"
              /\ UNCHANGED temp_files
    /\ UNCHANGED <<calls, engine_runs, cleanup_failed>>
    /\ UNCHANGED <<envVars, disk, batchVars, mlVars, mergeVars>>
    /\ UNCHANGED runVars
    /\ UNCHANGED logVars

\* run_ffmpeg_command(cmd) with outcome o, as seen in the job's history
RunStage(cmd, o) ==
    /\ calls' = Append(calls, [cmd |-> cmd, result |-> IF o.ok THEN "ok" ELSE "failed",
                                error |-> o.error])
    /\ engine_runs' = engine_runs + 1
    /\ disk' = IF o.wrote THEN disk \cup {cmd.output} ELSE disk

\* a return that leaves the function without its finally clause
ReturnTrueSkipsCleanup(pc) == IF pc = "return_true" THEN "returned" ELSE pc

\* `return True, ""`
ReturnTrue(pc) == IF pc = "return_true" THEN "finally" ELSE pc

\* Step 1 of every branch: base conversion
CV_Extract ==
    /\ job_pc = "extract"
    /\ \E o \in EngineOutcomes(InputPath \in disk) :
         /\ RunStage(build_base_conversion_command(FfmpegPath, InputPath,
                         ExtractTarget(Branch, OutputPath), preferences.audio_track), o)
         /\ IF o.ok
              THEN /\ job_pc' = ReturnTrue(AfterExtract(Branch, preferences))
                   /\ result' = Success
              ELSE /\ job_pc' = "finally"
                   /\ result' = StageFailure(ExtractLabel(Branch), o.error)
    /\ UNCHANGED <<temp_files, cleanup_failed>>
    /\ UNCHANGED <<envVars, batchVars, mlVars, mergeVars>>
    /\ UNCHANGED runVars
    /\ UNCHANGED logVars

\* Step 2 without TEN VAD: the built-in silenceremove command
CV_SilenceRemove ==
    /\ job_pc = "silence"
    /\ \E o \in EngineOutcomes(SilenceInput(Branch, OutputPath) \in disk) :
         /\ RunStage(build_silence_removal_command(FfmpegPath,
                         SilenceInput(Branch, OutputPath),
                         SilenceTarget(Branch, OutputPath)), o)
         /\ IF o.ok
              THEN /\ job_pc' = ReturnTrue(AfterSilence(Branch))
                   /\ result' = Success
              ELSE /\ job_pc' = "finally"
                   /\ result' = StageFailure("Silence removal failed", o.error)
    /\ UNCHANGED <<temp_files, cleanup_failed>>
    /\ UNCHANGED <<envVars, batchVars, mlVars, mergeVars>>
    /\ UNCHANGED runVars
    /\ UNCHANGED logVars

get_ten_vad_uncached(instance, inits) ==
    [instance |-> "TenVad", inits |-> inits + 1]

\* get_ten_vad when it returns: the cached instance if there is one, else a
\* new TenVad(...) stored in the global; inits counts the constructions
get_ten_vad(instance, inits) ==
    IF instance # "None"
      THEN [instance |-> instance, inits |-> inits]
      ELSE [instance |-> "TenVad", inits |-> inits + 1]

NoSegmentsNever(segs) == FALSE

\* apply_ten_vad: `if not segments`
NoSegments(segs) == segs = <<>>

MLFailedSkipFallback(cs, error) ==
    /\ calls' = [cs EXCEPT ![Len(cs)].result = "failed", ![Len(cs)].error = error]
    /\ ml_warning' = <<"TEN VAD failed: ">> \o error
    /\ job_pc' = "finally"

\* a failed apply_ten_vad taken for a successful one
MLFailedGoesOn(cs, error) ==
    /\ calls' = [cs EXCEPT ![Len(cs)].result = "failed", ![Len(cs)].error = error]
    /\ ml_warning' = <<"TEN VAD failed: ">> \o error
    /\ job_pc' = ReturnTrue(AfterSilence(Branch))

\* apply_ten_vad returned (False, error) for the call that ends cs: the job
\* prints the warning and goes on to the fallback
MLFailed(cs, error) ==
    /\ calls' = [cs EXCEPT ![Len(cs)].result = "failed", ![Len(cs)].error = error]
    /\ ml_warning' = <<"TEN VAD failed: ">> \o error
    /\ job_pc' = "fallback"

\* apply_ten_vad is called; detect_speech_segments_ten_vad imports numpy and
\* scipy and calls get_ten_vad
ML_Load ==
    /\ job_pc = "ml_load"
    /\ LET call == [cmd |-> MLSegmentCall(FfmpegPath, SilenceInput(Branch, OutputPath),
                                          SilenceTarget(Branch, OutputPath)),
                    result |-> "running", error |-> <<>>]
       IN  \/ \* the cached instance, or a first successful TenVad(...)
              /\ calls' = Append(calls, call)
              /\ ten_vad_instance' = get_ten_vad(ten_vad_instance, vad_inits).instance
              /\ vad_inits' = get_ten_vad(ten_vad_instance, vad_inits).inits
              /\ job_pc' = "ml_downsample"
              /\ UNCHANGED ml_warning
           \/ \* ImportError (numpy, scipy, ten_vad) or a failing TenVad(...)
              /\ \E e \in {"Required libraries not found", "Failed to initialize TEN VAD"} :
                   /\ (e = "Failed to initialize TEN VAD" => ten_vad_instance = "None")
                   /\ MLFailed(Append(calls, call), <<"TEN VAD processing failed: ", e>>)
              /\ UNCHANGED <<ten_vad_instance, vad_inits>>
    /\ UNCHANGED <<temp_files, result, engine_runs, cleanup_failed, ml_frames, ml_segments>>
    /\ UNCHANGED concat_cmds
    /\ UNCHANGED <<envVars, disk, batchVars, mergeVars>>
    /\ UNCHANGED runVars
    /\ UNCHANGED logVars

\* detect_speech_segments_ten_vad, Step 1: resample to 16 kHz mono
ML_Downsample ==
    /\ job_pc = "ml_downsample"
    /\ \E o \in EngineOutcomes(SilenceInput(Branch, OutputPath) \in disk) :
         /\ engine_runs' = engine_runs + 1
         /\ disk' = IF o.wrote
                      THEN disk \cup {Temp16kPath(SilenceInput(Branch, OutputPath))}
                      ELSE disk
         /\ IF o.ok
              THEN /\ job_pc' = "ml_analyze"
                   /\ UNCHANGED <<calls, ml_warning>>
              ELSE MLFailed(calls, <<"TEN VAD processing failed: ",
                                     "Failed to downsample audio: ">> \o o.error)
    /\ UNCHANGED <<temp_files, result, cleanup_failed>>
    /\ UNCHANGED <<ten_vad_instance, vad_inits, ml_frames, ml_segments, concat_cmds>>
    /\ UNCHANGED <<envVars, batchVars, mergeVars>>
    /\ UNCHANGED runVars
    /\ UNCHANGED logVars

\* frame_duration_sec = TEN_VAD_HOP_SIZE / TEN_VAD_SAMPLE_RATE, in ms
TEN_VAD_FRAME_MS == 16

\* original_filename = Path(input_path).name
OriginalFilename == Stem(InputPath) \o Suffix(InputPath)

\* log_dir / "log.txt"
LogPath == <<"log", ".txt">>

\* one line "filename|start-end|probability%"
LogLine(original_filename, frame) ==
    [file |-> original_filename, start |-> frame[1],
     end |-> frame[1] + TEN_VAD_FRAME_MS, pct |-> frame[2]]

\* how a run of log_speech_probabilities_ten_vad can end: every line
\* written, or an exception from open, write or close after `written` lines
LogOutcomes(frames, faulty) ==
    {[written |-> Len(frames), failed |-> FALSE]}
    \cup (IF faulty
            THEN {[written |-> k, failed |-> TRUE] : k \in 0..Len(frames)}
            ELSE {})

\* the file opened with mode 'w'
log_speech_probabilities_truncating(frames, original_filename, outcome) ==
    [mode  |-> "w",
     lines |-> [i \in 1..outcome.written |-> LogLine(original_filename, frames[i])]]

\* log_speech_probabilities_ten_vad: open(log_path, 'a') and the lines that
\* reached the file
log_speech_probabilities_ten_vad(frames, original_filename, outcome) ==
    [mode  |-> "a",
     lines |-> [i \in 1..outcome.written |-> LogLine(original_filename, frames[i])]]

\* detect_speech_segments_ten_vad, Steps 2-5 and the unlink of the 16 kHz
\* file, then `if not segments` of apply_ten_vad
ML_Analyze ==
    /\ job_pc = "ml_analyze"
    /\ \/ \* wavfile.read, the format checks or vad.process raise
          /\ \E e \in {"Unexpected sample rate", "classifier error"} :
               MLFailed(calls, <<"TEN VAD processing failed: ", e>>)
          /\ UNCHANGED <<disk, ml_frames, ml_segments>>
          /\ UNCHANGED logVars
       \/ \E frames \in VadOutputs, unlinked \in BOOLEAN :
          /\ ml_frames' = frames
          /\ \E lo \in LogOutcomes(frames, log_faulty) :
               /\ log_writes' = Append(log_writes,
                                        log_speech_probabilities_ten_vad(frames,
                                            OriginalFilename, lo))
               /\ log_warned' = lo.failed
          /\ disk' = IF unlinked
                       THEN disk \ {Temp16kPath(SilenceInput(Branch, OutputPath))}
                       ELSE disk
          /\ IF NoSegments(merge_frames_to_segments(frames))
               THEN /\ MLFailed(calls, <<"No speech segments detected by TEN VAD">>)
                    /\ UNCHANGED ml_segments
               ELSE /\ ml_segments' = merge_frames_to_segments(frames)
                    /\ job_pc' = "ml_concat"
                    /\ UNCHANGED <<calls, ml_warning>>
    /\ UNCHANGED <<temp_files, result, engine_runs, cleanup_failed>>
    /\ UNCHANGED <<ten_vad_instance, vad_inits, concat_cmds>>
    /\ UNCHANGED <<envVars, batchVars, mergeVars>>
    /\ UNCHANGED runVars

\* apply_ten_vad: the atrim/concat engine run on the original-quality input
ML_Concat ==
    /\ job_pc = "ml_concat"
    /\ \E o \in EngineOutcomes(SilenceInput(Branch, OutputPath) \in disk) :
         /\ engine_runs' = engine_runs + 1
         /\ disk' = IF o.wrote THEN disk \cup {SilenceTarget(Branch, OutputPath)} ELSE disk
         /\ IF o.ok
              THEN /\ calls' = [calls EXCEPT ![Len(calls)].result = "ok"]
                   /\ job_pc' = ReturnTrue(AfterSilence(Branch))
                   /\ UNCHANGED ml_warning
              ELSE MLFailed(calls, <<"Failed to concatenate speech segments: ">> \o o.error)
    /\ concat_cmds' = Append(concat_cmds,
                              ConcatCommand(FfmpegPath, SilenceInput(Branch, OutputPath),
                                            SilenceTarget(Branch, OutputPath), ml_segments))
    /\ ml_segments' = <<>>
    /\ UNCHANGED <<temp_files, result, cleanup_failed>>
    /\ UNCHANGED <<ten_vad_instance, vad_inits, ml_frames>>
    /\ UNCHANGED <<envVars, batchVars, mergeVars>>
    /\ UNCHANGED runVars
    /\ UNCHANGED logVars

\* Step 2 after a failed apply_ten_vad: "Falling back to FFmpeg silence
\* removal..."
CV_Fallback ==
    /\ job_pc = "fallback"
    /\ \E o \in EngineOutcomes(SilenceInput(Branch, OutputPath) \in disk) :
         /\ RunStage(build_silence_removal_command(FfmpegPath,
                         SilenceInput(Branch, OutputPath),
                         SilenceTarget(Branch, OutputPath)), o)
         /\ IF o.ok
              THEN /\ job_pc' = ReturnTrue(AfterSilence(Branch))
                   /\ result' = Success
              ELSE /\ job_pc' = "finally"
                   /\ result' = StageFailure("Silence removal failed", o.error)
    /\ UNCHANGED <<temp_files, cleanup_failed>>
    /\ UNCHANGED <<envVars, batchVars, mlVars, mergeVars>>
    /\ UNCHANGED runVars
    /\ UNCHANGED logVars

\* last step of the branches with normalization
CV_Normalize ==
    /\ job_pc = "normalize"
    /\ \E o \in EngineOutcomes(NormalizeInput(Branch, OutputPath) \in disk) :
         /\ RunStage(build_normalization_command(FfmpegPath,
                         NormalizeInput(Branch, OutputPath), OutputPath), o)
         /\ IF o.ok
              THEN /\ job_pc' = "finally"
                   /\ result' = Success
              ELSE /\ job_pc' = "finally"
                   /\ result' = StageFailure("Normalization failed", o.error)
    /\ UNCHANGED <<temp_files, cleanup_failed>>
    /\ UNCHANGED <<envVars, batchVars, mlVars, mergeVars>>
    /\ UNCHANGED runVars
    /\ UNCHANGED logVars

\* a loop that ends after its first path
CleanupTargetsFirstOnly(files) == IF files = <<>> THEN {} ELSE {files[1]}

\* the paths cleanup_temp_files tries to unlink
CleanupTargets(files) == {files[k] : k \in 1..Len(files)}

\* finally: cleanup_temp_files(temp_files); an unlink that raises is
\* swallowed and leaves its file (the set `stuck`)
CV_Finally ==
    /\ job_pc = "finally"
    /\ \E stuck \in SUBSET (CleanupTargets(temp_files) \cap disk) :
         /\ disk' = disk \ (CleanupTargets(temp_files) \ stuck)
         /\ cleanup_failed' = (stuck # {})
    /\ job_pc' = "returned"
    /\ UNCHANGED <<temp_files, result, calls, engine_runs>>
    /\ UNCHANGED <<envVars, batchVars, mlVars, mergeVars>>
    /\ UNCHANGED runVars
    /\ UNCHANGED logVars

Next ==
    \/ Main_FindVideoFiles
    \/ PF_CallConvert
    \/ PF_Collect
    \/ Main_Summary
    \/ CV_Resolve
    \/ CV_Extract
    \/ CV_SilenceRemove
    \/ ML_Load
    \/ ML_Downsample
    \/ ML_Analyze
    \/ ML_Concat
    \/ CV_Fallback
    \/ CV_Normalize
    \/ CV_Finally

Init == MergeInit /\ OrchInit /\ RunInit

Spec == Init /\ [][Next]_vars

----------------------------------------------------------------------------
(* merge_frames_to_segments alone: no batch is running                     *)

OrchIdle ==
    /\ engine_env = [platform |-> "linux", usr_bin |-> TRUE, usr_local_bin |-> FALSE,
                     bundled |-> FALSE]
    /\ preferences = [remove_silence |-> TRUE, use_silero_vad |-> TRUE,
                      normalize_audio |-> TRUE, audio_track |-> 1]
    /\ disk = {}
    /\ main_pc = "find"
    /\ video_files = <<>>
    /\ file_index = 1
    /\ errors = <<>>
    /\ convert_calls = <<>>
    /\ job_results = <<>>
    /\ exit_status = NoExit
    /\ job_pc = "idle"
    /\ temp_files = <<>>
    /\ result = Success
    /\ calls = <<>>
    /\ engine_runs = 0
    /\ cleanup_failed = FALSE
    /\ ten_vad_instance = "None"
    /\ vad_inits = 0
    /\ ml_frames = <<>>
    /\ concat_cmds = <<>>
    /\ ml_segments = <<>>
    /\ ml_warning = <<>>
    /\ log_faulty = FALSE
    /\ log_writes = <<>>
    /\ log_warned = FALSE

MergeNext ==
    \/ AppendFrame
    \/ MergeStep1
    \/ MergeStep2
    \/ MergeStep3
    \/ MergeStep4
    \/ MergeStep5
    \/ MergeAgain

InitMerge == MergeInit /\ OrchIdle /\ RunInit

SpecMerge == InitMerge /\ [][MergeNext]_vars

\* merge_frames_to_segments under other settings
SettingsNext ==
    \/ AppendHopFrame
    \/ MergeWithSettings

InitSettings == SettingsInit /\ OrchIdle /\ RunInit

SpecSettings == InitSettings /\ [][SettingsNext]_vars

\* run_ffmpeg_command alone
RunNext ==
    \/ Proc_WriteStderr
    \/ RFC_Classify
    \/ RFC_LaunchFails

InitRun == MergeInit /\ OrchIdle /\ RunInit

SpecRun == InitRun /\ [][RunNext]_vars

----------------------------------------------------------------------------
(* The batch on every machine: each platform with each combination of the  *)
(* installed and the bundled binaries present                              *)

Platforms == {"win32", "darwin", "linux", "freebsd"}

AllEngineEnvs ==
    [platform : Platforms, usr_bin : BOOLEAN, usr_local_bin : BOOLEAN, bundled : BOOLEAN]

EnginePreferences ==
    { [remove_silence |-> TRUE, use_silero_vad |-> TRUE, normalize_audio |-> TRUE,
       audio_track |-> 1],
      [remove_silence |-> TRUE, use_silero_vad |-> FALSE, normalize_audio |-> FALSE,
       audio_track |-> 2] }

EngineInit ==
    /\ engine_env \in AllEngineEnvs
    /\ preferences \in EnginePreferences
    /\ disk = {<<"a", ".mp4">>} \cup OtherNames
    /\ main_pc = "find"
    /\ video_files = <<>>
    /\ file_index = 1
    /\ errors = <<>>
    /\ convert_calls = <<>>
    /\ job_results = <<>>
    /\ exit_status = NoExit
    /\ job_pc = "idle"
    /\ temp_files = <<>>
    /\ result = Success
    /\ calls = <<>>
    /\ engine_runs = 0
    /\ cleanup_failed = FALSE
    /\ ten_vad_instance = "None"
    /\ vad_inits = 0
    /\ ml_frames = <<>>
    /\ concat_cmds = <<>>
    /\ ml_segments = <<>>
    /\ ml_warning = <<>>
    /\ log_faulty = FALSE
    /\ log_writes = <<>>
    /\ log_warned = FALSE

InitEngine == MergeInit /\ EngineInit /\ RunInit

SpecEngine == InitEngine /\ [][Next]_vars

----------------------------------------------------------------------------
(* The batch in a directory where log.txt may fail to open or to take a    *)
(* line                                                                    *)

LogInit ==
    /\ engine_env = [platform |-> "linux", usr_bin |-> TRUE, usr_local_bin |-> FALSE,
                     bundled |-> FALSE]
    /\ preferences \in EnginePreferences
    /\ disk = {<<"a", ".mp4">>, <<"B", ".MKV">>} \cup OtherNames
    /\ log_faulty \in BOOLEAN
    /\ main_pc = "find"
    /\ video_files = <<>>
    /\ file_index = 1
    /\ errors = <<>>
    /\ convert_calls = <<>>
    /\ job_results = <<>>
    /\ exit_status = NoExit
    /\ job_pc = "idle"
    /\ temp_files = <<>>
    /\ result = Success
    /\ calls = <<>>
    /\ engine_runs = 0
    /\ cleanup_failed = FALSE
    /\ ten_vad_instance = "None"
    /\ vad_inits = 0
    /\ ml_frames = <<>>
    /\ concat_cmds = <<>>
    /\ ml_segments = <<>>
    /\ ml_warning = <<>>
    /\ log_writes = <<>>
    /\ log_warned = FALSE

InitLog == MergeInit /\ LogInit /\ RunInit

SpecLog == InitLog /\ [][Next]_vars

----------------------------------------------------------------------------
(* The batch when every step that can be taken is taken: the interpreter   *)
(* runs the statements one after the other and every engine process        *)
(* returns                                                                 *)

FairListings ==
    {OtherNames, {<<"a", ".mp4">>} \cup OtherNames,
     {<<"a", ".mp4">>, <<"B", ".MKV">>} \cup OtherNames}

FairInit ==
    /\ engine_env \in EngineEnvs
    /\ preferences \in EnginePreferences
    /\ disk \in FairListings
    /\ log_faulty = FALSE
    /\ main_pc = "find"
    /\ video_files = <<>>
    /\ file_index = 1
    /\ errors = <<>>
    /\ convert_calls = <<>>
    /\ job_results = <<>>
    /\ exit_status = NoExit
    /\ job_pc = "idle"
    /\ temp_files = <<>>
    /\ result = Success
    /\ calls = <<>>
    /\ engine_runs = 0
    /\ cleanup_failed = FALSE
    /\ ten_vad_instance = "None"
    /\ vad_inits = 0
    /\ ml_frames = <<>>
    /\ concat_cmds = <<>>
    /\ ml_segments = <<>>
    /\ ml_warning = <<>>
    /\ log_writes = <<>>
    /\ log_warned = FALSE

InitFair == MergeInit /\ FairInit /\ RunInit

SpecFair == InitFair /\ [][Next]_vars /\ WF_vars(Next)

----------------------------------------------------------------------------
(* Properties of merge_frames_to_segments (checked under SpecMerge)        *)

MergeReturned == mpc \in {"returned", "remerged"}

Gap(segs, i) == segs[i + 1][1] - segs[i][2]

\* the segments before padding, recomputed from the argument
UnpaddedSegments(frames) ==
    MergeClose(FilterShort(VoiceRegions(frames), TEN_VAD_MIN_SPEECH_DURATION_MS),
               TEN_VAD_MIN_SILENCE_DURATION_MS)

\* C8: for strictly increasing timestamps the returned list is sorted
\* ascending by start and each segment starts strictly after the previous
\* segment's end.
C8_SortedNonOverlapping ==
    MergeReturned =>
        \A i \in 1..(Len(segments) - 1) :
            /\ segments[i][1] < segments[i + 1][1]
            /\ segments[i + 1][1] > segments[i][2]

C8_Witness ==
    /\ mpc = "returned"
    /\ Len(segments) >= 2

\* C9 as stated: in the returned list every gap between consecutive
\* segments is at least the minimum silence duration.
C9_FinalGapAtLeastMinSilence ==
    MergeReturned =>
        \A i \in 1..(Len(segments) - 1) :
            Gap(segments, i) >= TEN_VAD_MIN_SILENCE_DURATION_MS

\* C9 amended: the gap exceeds the minimum silence duration after the gap
\* merge of step 3 (before padding); in the returned list each gap is the
\* positive rest of such a gap once both neighbours are padded and clamped.
C9_GapBeforePadding ==
    /\ mpc = "step4" =>
         \A i \in 1..(Len(segments) - 1) :
             Gap(segments, i) > TEN_VAD_MIN_SILENCE_DURATION_MS
    /\ MergeReturned =>
         LET unp   == UnpaddedSegments(frame_results)
             total == TotalDuration(frame_results)
         IN  \A i \in 1..(Len(segments) - 1) :
               /\ Gap(segments, i) > 0
               /\ \E j \in 1..(Len(unp) - 1) :
                    /\ Gap(unp, j) > TEN_VAD_MIN_SILENCE_DURATION_MS
                    /\ segments[i][2] = Min(unp[j][2] + TEN_VAD_SPEECH_PAD_MS, total)
                    /\ segments[i + 1][1] = Max(0, unp[j + 1][1] - TEN_VAD_SPEECH_PAD_MS)

C9_Witness ==
    /\ mpc = "returned"
    /\ Len(segments) >= 2
    /\ Gap(segments, 1) < TEN_VAD_MIN_SILENCE_DURATION_MS

\* C10 as stated: a second run on the encoded result returns the same
\* intervals.
C10_Idempotent ==
    mpc = "remerged" => remerged = segments

\* C10 amended: a second run returns intervals that cover the first run's
\* intervals (every first-run interval lies inside a second-run interval)
\* and never more of them.
C10_RerunCovers ==
    mpc = "remerged" =>
        /\ Len(remerged) <= Len(segments)
        /\ \A i \in 1..Len(segments) :
             \E j \in 1..Len(remerged) :
                /\ remerged[j][1] <= segments[i][1]
                /\ segments[i][2] <= remerged[j][2]

C10_Witness ==
    /\ mpc = "remerged"
    /\ Len(segments) >= 1
    /\ remerged # segments

\* the settings in force applied to the argument, with another silence setting
SegmentsWithSilence(s) ==
    MergeFramesWith(frame_results, thresholds.min_speech, s, thresholds.pad)

\* C11: for every frame sequence and every fixed minimum speech duration and
\* pad, raising the minimum silence duration never increases the number of
\* segments the function returns.
C11_LongerSilenceNeverMoreSegments ==
    mpc = "returned" =>
        \A s \in SilenceSettings :
            s >= thresholds.min_silence =>
                Len(SegmentsWithSilence(s)) <= Len(segments)

C11_Witness ==
    /\ mpc = "returned"
    /\ Len(segments) >= 2
    /\ \E s \in SilenceSettings :
         /\ s > thresholds.min_silence
         /\ Len(SegmentsWithSilence(s)) < Len(segments)

\* C12: every segment from padding on, and every returned segment, has
\* 0 <= start and end <= total duration (the last frame's timestamp), also
\* when the unpadded start is 0 or the unpadded end is the total duration.
C12_WithinAudio ==
    mpc \in {"step5", "returned", "remerged"} =>
        \A i \in 1..Len(segments) :
            /\ 0 <= segments[i][1]
            /\ segments[i][2] <= TotalDuration(frame_results)

C12_Witness ==
    /\ mpc = "returned"
    /\ Len(segments) >= 1
    /\ LET unp == UnpaddedSegments(frame_results)
       IN  /\ unp[1][1] = 0
           /\ unp[Len(unp)][2] = TotalDuration(frame_results)
           /\ TotalDuration(frame_results) > 0
    /\ segments[1][1] = 0
    /\ segments[Len(segments)][2] = TotalDuration(frame_results)

\* C13: after the filter of step 2 and in every later step up to the return,
\* every segment has start < end and lasts at least the minimum speech
\* duration.
C13_NoShortSegment ==
    mpc \in {"step3", "step4", "step5", "returned", "remerged"} =>
        \A i \in 1..Len(segments) :
            /\ segments[i][1] < segments[i][2]
            /\ segments[i][2] - segments[i][1] >= TEN_VAD_MIN_SPEECH_DURATION_MS

\* a short run was dropped and a kept one was padded against the end of the
\* audio
C13_Witness ==
    /\ mpc = "returned"
    /\ Len(segments) >= 1
    /\ \E k \in 1..Len(VoiceRegions(frame_results)) :
         LET r == VoiceRegions(frame_results)[k]
         IN  r[2] - r[1] < TEN_VAD_MIN_SPEECH_DURATION_MS
    /\ LET unp == UnpaddedSegments(frame_results)
       IN  unp[Len(unp)][2] + TEN_VAD_SPEECH_PAD_MS > TotalDuration(frame_results)

\* the voice runs that survive the filter of step 2 under the settings in force
SurvivingRuns == FilterShort(VoiceRegions(frame_results), thresholds.min_speech)

\* frames [voice, voice, non-voice, voice] at 0, 16, 32 and 48 ms
ExampleFrames ==
    <<<<0, 90, TRUE>>, <<16, 90, TRUE>>, <<32, 10, FALSE>>, <<48, 90, TRUE>>>>

ExampleThresholds == [min_speech |-> 0, min_silence |-> 20, pad |-> 0]

\* C14: two consecutive surviving voice runs whose gap is at most the
\* minimum silence duration lie in one returned segment; without padding
\* that segment starts at a run's start and ends at a run's end, and when
\* they are the only runs it is exactly (first start, last end).  The
\* example frames with min-speech 0, min-silence 20 ms and pad 0 give
\* exactly the one segment (0, 48).
C14_CloseRunsBecomeOneSegment ==
    mpc = "returned" =>
        /\ \A i \in 1..(Len(SurvivingRuns) - 1) :
             Gap(SurvivingRuns, i) <= thresholds.min_silence =>
                \E k \in 1..Len(segments) :
                    /\ segments[k][1] <= SurvivingRuns[i][1]
                    /\ SurvivingRuns[i + 1][2] <= segments[k][2]
                    /\ thresholds.pad = 0 =>
                         /\ \E j \in 1..i : segments[k][1] = SurvivingRuns[j][1]
                         /\ \E j \in (i + 1)..Len(SurvivingRuns) :
                                segments[k][2] = SurvivingRuns[j][2]
        /\ ( /\ Len(SurvivingRuns) = 2
             /\ Gap(SurvivingRuns, 1) <= thresholds.min_silence
             /\ thresholds.pad = 0 )
           => segments = << <<SurvivingRuns[1][1], SurvivingRuns[2][2]>> >>
        /\ (frame_results = ExampleFrames /\ thresholds = ExampleThresholds)
           => segments = << <<0, 48>> >>

C14_Witness ==
    /\ mpc = "returned"
    /\ frame_results = ExampleFrames
    /\ thresholds = ExampleThresholds
    /\ segments = << <<0, 48>> >>

----------------------------------------------------------------------------
(* Properties of run_ffmpeg_command (checked under SpecRun)                *)

\* the process wrote something and neither its first nor its last line is
\* blank
NoBlankEnds(lines) ==
    Len(lines) > 0 /\ lines[1] # "" /\ lines[Len(lines)] # ""

\* a text of whole lines, without the final newline
TextOfLines(lines) == IF lines = <<>> THEN <<"">> ELSE lines

IsSuffix(t, u) ==
    Len(t) <= Len(u) /\ t = SubSeq(u, Len(u) - Len(t) + 1, Len(u))

\* C15 as stated: exit code 0 gives (success, empty text); a non-zero exit
\* code gives failure with exactly the last 5 lines of the captured stderr
\* when it has more than 5 lines and the whole stderr text otherwise.
C15_TailOfCapturedStderr ==
    run_pc = "returned" =>
        IF proc_returncode = 0
          THEN run_result = <<TRUE, <<"">>>>
          ELSE /\ run_result[1] = FALSE
               /\ run_result[2] =
                    IF Len(proc_stderr) > 5
                      THEN SubSeq(proc_stderr, Len(proc_stderr) - 4, Len(proc_stderr))
                      ELSE TextOfLines(proc_stderr)

\* C15 amended: the tail is taken from the captured stderr after str.strip():
\* the diagnostic is a suffix of the stripped text, the whole of it when it
\* has at most 5 lines and exactly 5 lines otherwise; when stderr neither
\* starts nor ends with a blank line that is the tail of stderr itself.
C15_TailOfStrippedStderr ==
    run_pc = "returned" =>
        IF proc_returncode = 0
          THEN run_result = <<TRUE, <<"">>>>
          ELSE LET stripped == Strip(StderrText(proc_stderr))
               IN  /\ run_result[1] = FALSE
                   /\ IsSuffix(run_result[2], stripped)
                   /\ Len(run_result[2]) = IF Len(stripped) > 5 THEN 5 ELSE Len(stripped)
                   /\ NoBlankEnds(proc_stderr) =>
                        run_result[2] =
                            IF Len(proc_stderr) > 5
                              THEN SubSeq(proc_stderr, Len(proc_stderr) - 4,
                                          Len(proc_stderr))
                              ELSE proc_stderr

\* 8 lines of stderr: the diagnostic is lines 4 to 8
C15_Witness ==
    /\ run_pc = "returned"
    /\ proc_returncode # 0
    /\ Len(proc_stderr) = 8
    /\ NoBlankEnds(proc_stderr)
    /\ proc_stderr[3] # proc_stderr[4]
    /\ run_result = <<FALSE, SubSeq(proc_stderr, 4, 8)>>

----------------------------------------------------------------------------
(* Properties of the batch (checked under Spec)                            *)

\* convert_video_to_audio is running or has just returned
InJob == job_pc # "idle"

JobReturned == job_pc = "returned"

StageOps(cs) == [k \in 1..Len(cs) |-> cs[k].cmd.op]

AllStagesOk(cs) == \A k \in 1..Len(cs) : cs[k].result = "ok"

MLFellBack(cs) == \E k \in 1..Len(cs) : cs[k].cmd.op = "MLSegment" /\ cs[k].result = "failed"

\* the stage sequence the flags ask for
ExpectedStages(prefs) ==
    <<"Extract">>
    \o (IF prefs.remove_silence
          THEN <<IF prefs.use_silero_vad THEN "MLSegment" ELSE "SilenceRemove">>
          ELSE <<>>)
    \o (IF prefs.normalize_audio THEN <<"Normalize">> ELSE <<>>)

\* C1: when the engine resolves and every invoked stage succeeds, the job
\* returns success after exactly the stage sequence its flags ask for, and
\* the last stage invoked wrote to the job's final output path.
C1_StageSequence ==
    (JobReturned /\ get_ffmpeg_path(engine_env).ok /\ AllStagesOk(calls)) =>
        /\ StageOps(calls) = ExpectedStages(preferences)
        /\ calls[Len(calls)].cmd.output = OutputPath
        /\ result = Success

C1_Witness ==
    /\ JobReturned
    /\ AllStagesOk(calls)
    /\ StageOps(calls) = <<"Extract", "MLSegment", "Normalize">>
    /\ preferences.use_silero_vad

\* the stage kinds that are the last enabled stage under the flags
LastStageOps(prefs) ==
    IF prefs.normalize_audio THEN {"Normalize"}
    ELSE IF prefs.remove_silence THEN {"MLSegment", "SilenceRemove"}
    ELSE {"Extract"}

\* output of the latest successful stage before position k (k > 1)
LastWrittenBefore(cs, k) ==
    LET okBefore == {j \in 1..(k - 1) : cs[j].result = "ok"}
        j == CHOOSE m \in okBefore : \A n \in okBefore : n <= m
    IN  IF okBefore = {} THEN <<"", "">> ELSE cs[j].cmd.output

\* the temp artifact a stage that is not the last enabled one writes
TempTargetOf(op, output_path) ==
    IF op = "Extract" THEN get_temp_path(output_path, 1)
    ELSE get_temp_path(output_path, 2)

WritesAsWired(cs, prefs, output_path) ==
    \A k \in 1..Len(cs) :
        IF cs[k].cmd.op \in LastStageOps(prefs)
          THEN cs[k].cmd.output = output_path
          ELSE cs[k].cmd.output = TempTargetOf(cs[k].cmd.op, output_path)

\* C2 as stated: Extract reads the source file, every later stage reads
\* exactly the path the previous stage wrote, and the targets are wired
\* temp1 / temp2 / final output path.
C2_ReadsPreviousStage ==
    InJob =>
        /\ \A k \in 1..Len(calls) :
             calls[k].cmd.input = IF k = 1 THEN InputPath ELSE calls[k - 1].cmd.output
        /\ WritesAsWired(calls, preferences, OutputPath)

\* C2 amended: every later stage reads exactly the path written by the
\* latest stage that succeeded (the fallback reads temp1, as the failed ML
\* step did); targets are wired as stated.
C2_ReadsLastSuccessfulStage ==
    InJob =>
        /\ \A k \in 1..Len(calls) :
             calls[k].cmd.input = IF k = 1 THEN InputPath ELSE LastWrittenBefore(calls, k)
        /\ WritesAsWired(calls, preferences, OutputPath)

C2_Witness ==
    /\ JobReturned
    /\ StageOps(calls) = <<"Extract", "MLSegment", "SilenceRemove", "Normalize">>
    /\ result = Success

\* C3: after convert_video_to_audio returns, by success, by a failed stage
\* or by a caught exception, neither temp1 nor temp2 of the job exists,
\* provided no deletion of cleanup_temp_files failed.
C3_TempsRemoved ==
    (JobReturned /\ ~cleanup_failed) =>
        /\ get_temp_path(OutputPath, 1) \notin disk
        /\ get_temp_path(OutputPath, 2) \notin disk

C3_Witness ==
    /\ JobReturned
    /\ ~cleanup_failed
    /\ Len(temp_files) = 2
    /\ Len(calls) = 4
    /\ calls[4].result = "failed"

\* C4: a failed ML segmenter call never ends the job: it is followed by
\* exactly one built-in SilenceRemove with the same input and the same
\* target, or that fallback is the next thing the job does.
C4_FallbackOnMLFailure ==
    \A k \in 1..Len(calls) :
        (calls[k].cmd.op = "MLSegment" /\ calls[k].result = "failed") =>
            \/ (k = Len(calls) /\ job_pc = "fallback")
            \/ /\ k < Len(calls)
               /\ calls[k + 1].cmd.op = "SilenceRemove"
               /\ calls[k + 1].cmd.input = calls[k].cmd.input
               /\ calls[k + 1].cmd.output = calls[k].cmd.output
               /\ Cardinality({j \in 1..Len(calls) : calls[j].cmd.op = "SilenceRemove"}) = 1

C4_Witness ==
    /\ JobReturned
    /\ MLFellBack(calls)
    /\ Len(calls) >= 3
    /\ calls[3].cmd.op = "SilenceRemove"

\* the job in which the ML segmenter failed and everything else succeeded
FallbackJobSucceeded ==
    /\ JobReturned
    /\ MLFellBack(calls)
    /\ \A k \in 1..Len(calls) : calls[k].cmd.op # "MLSegment" => calls[k].result = "ok"

\* C5: when the ML segmenter fails and the fallback and every later stage
\* succeed, the job returns (True, ""), the failure is kept only as a
\* warning, and process_files adds nothing to its error list.
C5_FallbackJobIsDone ==
    [][FallbackJobSucceeded =>
          /\ result = Success
          /\ ml_warning # <<>>
          /\ errors' = errors
          /\ job_results' = Append(job_results, Success)]_vars

C5_Witness ==
    /\ FallbackJobSucceeded
    /\ StageOps(calls) = <<"Extract", "MLSegment", "SilenceRemove", "Normalize">>
    /\ ml_warning = <<"TEN VAD failed: ", "TEN VAD processing failed: ",
                      "Failed to initialize TEN VAD">>

\* the labels that name a stage in an error text
StageLabels(op) ==
    CASE op = "Extract" -> {"Base conversion failed", "Conversion failed"}
      [] op = "SilenceRemove" -> {"Silence removal failed"}
      [] op = "Normalize" -> {"Normalization failed"}
      [] OTHER -> {}

\* C6: a failed Extract, SilenceRemove or Normalize is the last stage of its
\* job, and the job fails with that stage's label followed by the adapter's
\* diagnostic text.
C6_StageFailureIsFatal ==
    \A k \in 1..Len(calls) :
        (calls[k].cmd.op # "MLSegment" /\ calls[k].result = "failed") =>
            /\ k = Len(calls)
            /\ job_pc \in {"finally", "returned"}
            /\ result[1] = FALSE
            /\ \E label \in StageLabels(calls[k].cmd.op) :
                 result[2] = <<label, ": ">> \o calls[k].error

C6_Witness ==
    /\ JobReturned
    /\ StageOps(calls) = <<"Extract", "SilenceRemove">>
    /\ calls[2].result = "failed"
    /\ preferences.normalize_audio

\* the entries process_files must hold for the results rs of the files fs
RECURSIVE ExpectedErrors(_, _, _)
ExpectedErrors(fs, rs, k) ==
    IF k > Len(rs) THEN <<>>
    ELSE (IF rs[k][1] THEN <<>> ELSE <<<<fs[k], rs[k][2]>>>>)
         \o ExpectedErrors(fs, rs, k + 1)

Successful(rs) == Cardinality({k \in 1..Len(rs) : rs[k][1]})

\* C7: process_files calls convert_video_to_audio once per file, in order,
\* whatever earlier jobs returned; the error list holds one entry per failed
\* job in processing order, so successful + failed = total.
C7_EveryFileProcessedOnce ==
    /\ convert_calls = SubSeq(video_files, 1, Len(convert_calls))
    /\ errors = ExpectedErrors(video_files, job_results, 1)
    /\ main_pc = "done" =>
         /\ convert_calls = video_files
         /\ Len(job_results) = Len(video_files)
         /\ Successful(job_results) + Len(errors) = Len(video_files)

C7_Witness ==
    /\ main_pc = "done"
    /\ Len(video_files) = 2
    /\ Len(errors) = 2
    /\ errors[1][2] # errors[2][2]

\* the warning the job prints when apply_ten_vad found no speech
NoSpeechWarning == <<"TEN VAD failed: ", "No speech segments detected by TEN VAD">>

\* subprocess.run calls of the job that are not stages of their own: the
\* downsample and the atrim/concat run of apply_ten_vad
SegmenterEngineRuns(cs) ==
    engine_runs - Cardinality({k \in 1..Len(cs) : cs[k].cmd.op # "MLSegment"})

\* C16: when the merge of the analysed frames yields zero segments (empty
\* audio, no voice frame, only runs shorter than the minimum speech
\* duration), apply_ten_vad fails with "No speech segments detected" without
\* an engine run for the extraction, and the job goes on with the built-in
\* SilenceRemove; the extraction runs only with at least one segment.
C16_NoSpeechIsRecoverable ==
    InJob =>
        /\ job_pc = "ml_concat" =>
             /\ Len(merge_frames_to_segments(ml_frames)) > 0
             /\ ml_segments = merge_frames_to_segments(ml_frames)
        /\ \A k \in 1..Len(calls) :
             (calls[k].cmd.op = "MLSegment" /\ calls[k].result = "ok") =>
                 Len(merge_frames_to_segments(ml_frames)) > 0
        /\ ml_warning = NoSpeechWarning =>
             /\ Len(merge_frames_to_segments(ml_frames)) = 0
             /\ SegmenterEngineRuns(calls) = 1
             /\ \E k \in 1..Len(calls) :
                  /\ calls[k].cmd.op = "MLSegment"
                  /\ calls[k].result = "failed"
                  /\ calls[k].error = <<"No speech segments detected by TEN VAD">>
                  /\ \/ (k = Len(calls) /\ job_pc = "fallback")
                     \/ (k < Len(calls) /\ calls[k + 1].cmd.op = "SilenceRemove")
             /\ ~result[1] =>
                  result[2][1] \in {"Silence removal failed", "Normalization failed"}

\* only runs shorter than the minimum speech duration: the job is done after
\* the fallback
C16_Witness ==
    /\ JobReturned
    /\ ml_warning = NoSpeechWarning
    /\ \E i \in 1..Len(ml_frames) : ml_frames[i][3]
    /\ StageOps(calls) = <<"Extract", "MLSegment", "SilenceRemove", "Normalize">>
    /\ result = Success

\* get_ffmpeg_path raises FileNotFoundError or OSError
EngineNotFound == ~get_ffmpeg_path(engine_env).ok

\* C17: if the engine binary cannot be resolved, the batch aborts before any
\* job runs: convert_video_to_audio is never called, no stage is invoked
\* and process_files collects no per-job error.
C17_BatchAbortsWithoutEngine ==
    EngineNotFound =>
        /\ convert_calls = <<>>
        /\ job_pc = "idle"
        /\ calls = <<>>
        /\ errors = <<>>

\* what the code does instead: every job is started and fails on its own
C17_Witness ==
    /\ EngineNotFound
    /\ main_pc = "done"
    /\ Len(convert_calls) = 2
    /\ Len(errors) = 2
    /\ engine_runs = 0

\* a file that detect_speech_segments_ten_vad created
IsResampledFile(p) == Suffix(p) = ".wav"

\* C18: the resampled 16 kHz file exists only while
\* detect_speech_segments_ten_vad is analysing it: it is gone once the
\* detection has returned or raised, and no such file outlives a job.
C18_ResampledFileRemoved ==
    job_pc # "ml_analyze" => \A p \in disk : ~IsResampledFile(p)

\* wavfile.read, a format check or the classifier raised after a successful
\* downsample, and the job returned with the file still on disk
C18_Witness ==
    /\ JobReturned
    /\ ~cleanup_failed
    /\ SegmenterEngineRuns(calls) = 1
    /\ ml_warning \in {<<"TEN VAD failed: ", "TEN VAD processing failed: ", e>> :
                         e \in {"Unexpected sample rate", "classifier error"}}
    /\ Temp16kPath(get_temp_path(OutputPath, 1)) \in disk

\* C19: the classifier is constructed only by an ML segmenter step that
\* finds no instance, at most once in the process; once it exists every
\* later step gets the same instance.
C19_ClassifierBuiltOnce ==
    /\ [](vad_inits <= 1)
    /\ []((vad_inits = 1) <=> (ten_vad_instance # "None"))
    /\ [][ /\ vad_inits' # vad_inits =>
                /\ job_pc = "ml_load"
                /\ ten_vad_instance = "None"
                /\ vad_inits' = vad_inits + 1
           /\ ten_vad_instance # "None" => ten_vad_instance' = ten_vad_instance ]_vars

\* the second job of a batch is inside its ML step with the instance the
\* first job built
C19_Witness ==
    /\ file_index = 2
    /\ job_pc = "ml_downsample"
    /\ vad_inits = 1
    /\ job_results = <<Success>>

\* the stage whose failure ended the job, if there is one
FailedStage(cs) ==
    {k \in 1..Len(cs) : cs[k].cmd.op # "MLSegment" /\ cs[k].result = "failed"}

\* C20 as stated: the error of a failed stage is its label, ': ' and the
\* diagnostic, the label of Extract being 'Base conversion failed' under
\* every combination of the flags.
C20_ErrorNamesStage ==
    \A k \in FailedStage(calls) :
        result = <<FALSE,
                   << CASE calls[k].cmd.op = "Extract" -> "Base conversion failed"
                        [] calls[k].cmd.op = "SilenceRemove" -> "Silence removal failed"
                        [] calls[k].cmd.op = "Normalize" -> "Normalization failed",
                      ": " >> \o calls[k].error>>

\* the label by stage and flags
StageLabel(op, prefs) ==
    CASE op = "Extract" ->
           IF prefs.remove_silence \/ prefs.normalize_audio
             THEN "Base conversion failed"
             ELSE "Conversion failed"
      [] op = "SilenceRemove" -> "Silence removal failed"
      [] op = "Normalize" -> "Normalization failed"

\* C20 amended: as stated, except that a failed Extract is labelled
\* 'Conversion failed' when neither silence removal nor normalization is
\* selected, and 'Base conversion failed' otherwise.
C20_ErrorNamesStageByFlags ==
    \A k \in FailedStage(calls) :
        result = <<FALSE, <<StageLabel(calls[k].cmd.op, preferences), ": ">>
                            \o calls[k].error>>

C20_Witness ==
    /\ JobReturned
    /\ ~preferences.remove_silence
    /\ ~preferences.normalize_audio
    /\ FailedStage(calls) = {1}
    /\ result = <<FALSE, <<"Conversion failed", ": ">> \o calls[1].error>>

\* how often the job invoked a stage
CountOps(cs, op) == Cardinality({k \in 1..Len(cs) : cs[k].cmd.op = op})

\* C21 as stated: a single job never invokes both the ML segmenter and the
\* built-in SilenceRemove command.
C21_NeverBothSilenceStages ==
    InJob => ~(CountOps(calls, "MLSegment") > 0 /\ CountOps(calls, "SilenceRemove") > 0)

\* C21 amended: a job invokes each silence-handling stage at most once and
\* at most one of them succeeds; the ML segmenter runs only when silence
\* removal and the ML method are both selected, and then the built-in
\* SilenceRemove runs only as the fallback directly after a failed ML
\* segmenter; without the ML method the ML segmenter never runs.
C21_OneSilenceStageSucceeds ==
    InJob =>
        /\ CountOps(calls, "MLSegment") <= 1
        /\ CountOps(calls, "SilenceRemove") <= 1
        /\ Cardinality({k \in 1..Len(calls) :
                           /\ calls[k].cmd.op \in {"MLSegment", "SilenceRemove"}
                           /\ calls[k].result = "ok"}) <= 1
        /\ CountOps(calls, "MLSegment") > 0 =>
               (preferences.remove_silence /\ preferences.use_silero_vad)
        /\ CountOps(calls, "SilenceRemove") > 0 => preferences.remove_silence
        /\ \A k \in 1..Len(calls) :
             calls[k].cmd.op = "SilenceRemove" =>
                IF preferences.use_silero_vad
                  THEN /\ k > 1
                       /\ calls[k - 1].cmd.op = "MLSegment"
                       /\ calls[k - 1].result = "failed"
                  ELSE CountOps(calls, "MLSegment") = 0

C21_Witness ==
    /\ JobReturned
    /\ ~preferences.normalize_audio
    /\ StageOps(calls) = <<"Extract", "MLSegment", "SilenceRemove">>
    /\ calls[2].result = "failed"
    /\ calls[3].result = "ok"
    /\ result = Success

\* a file that a job or the segmenter writes
IsProduct(p) == Suffix(p) \in {OUTPUT_EXTENSION, ".wav"}

\* C22: when find_video_files returns no file, main reports it and ends
\* without calling process_files: no job is created, no stage and no
\* engine process is invoked, and no output or temp file is created.
C22_NoFilesNoWork ==
    (main_pc # "find" /\ video_files = <<>>) =>
        /\ main_pc = "exit"
        /\ find_video_files(disk) = <<>>
        /\ convert_calls = <<>>
        /\ job_results = <<>>
        /\ errors = <<>>
        /\ job_pc = "idle"
        /\ calls = <<>>
        /\ engine_runs = 0
        /\ temp_files = <<>>
        /\ \A p \in disk : ~IsProduct(p)

\* the directory holds files, none of them a video
C22_Witness ==
    /\ main_pc = "exit"
    /\ disk = OtherNames
    /\ video_files = <<>>

\* main has ended
Terminated == main_pc \in {"exit", "done"}

\* C24 as stated: the exit status tells whether a video file was found: the
\* batch without files ends with sys.exit(0), so a batch with at least one
\* file ends with another status, whatever its jobs returned.
C24_ExitStatusTellsWork ==
    /\ main_pc = "exit" => exit_status = 0
    /\ main_pc = "done" => exit_status # 0

\* C24 amended: the exit status is 0 both when no file was found and after
\* a batch with files, whether none, some or all of its jobs failed; it
\* tells neither.
C24_ExitStatusAlwaysZero ==
    /\ Terminated => exit_status = 0
    /\ ~Terminated => exit_status = NoExit

\* every job of a batch with two files failed
C24_Witness ==
    /\ main_pc = "done"
    /\ Len(video_files) = 2
    /\ Len(errors) = 2
    /\ exit_status = 0

\* the paths a stage of the current job may write
PathsOfJob == {OutputPath, get_temp_path(OutputPath, 1), get_temp_path(OutputPath, 2)}

\* C23: the files are processed in ascending order of the lower-cased name,
\* one job at a time: a job is started only when the one before has
\* returned, after its cleanup, and its result is collected; every stage
\* invoked belongs to the one job that is open.
C23_OneJobAtATimeInOrder ==
    /\ [](\A i, j \in 1..Len(video_files) :
             i < j => SortKey(video_files[i]) < SortKey(video_files[j]))
    /\ [](convert_calls = SubSeq(video_files, 1, Len(convert_calls)))
    /\ [](IF InJob
            THEN /\ Len(convert_calls) = Len(job_results) + 1
                 /\ file_index = Len(convert_calls)
                 /\ \A k \in 1..Len(calls) : calls[k].cmd.output \in PathsOfJob
                 /\ Len(calls) > 0 => calls[1].cmd.input = InputPath
            ELSE /\ Len(convert_calls) = Len(job_results)
                 /\ calls = <<>>)
    /\ [][ /\ convert_calls' # convert_calls =>
                (job_pc = "idle" /\ Len(job_results) = Len(convert_calls))
           /\ job_results' # job_results => job_pc = "returned"
           /\ (job_pc' = "returned" /\ job_pc # "returned") => job_pc = "finally" ]_vars

\* the first stage of the second job, after the first job returned; the
\* order differs from the order of the names as written
C23_Witness ==
    /\ video_files = << <<"a", ".mp4">>, <<"B", ".MKV">> >>
    /\ file_index = 2
    /\ Len(job_results) = 1
    /\ Len(calls) = 1
    /\ calls[1].cmd.input = <<"B", ".MKV">>

----------------------------------------------------------------------------
(* Engine resolution on every machine (checked under SpecEngine)           *)

SupportedPlatform == engine_env.platform \in {"win32", "darwin", "linux"}

SystemInstalled == engine_env.usr_bin \/ engine_env.usr_local_bin

BundledPath == IF engine_env.platform = "win32" THEN "bundled/ffmpeg.exe" ELSE "bundled/ffmpeg"

PastResolve == job_pc \notin {"idle", "resolve"}

\* the job went on with this engine path: every stage command starts with it
EngineFound(path) ==
    PastResolve =>
        /\ result[2] \notin {<<"Unsupported platform">>,
                              <<"FFmpeg binary not found at bundled path">>}
        /\ \A k \in 1..Len(calls) : calls[k].cmd.ffmpeg = path

\* the job failed at resolution with this text and invoked nothing
EngineMissing(text) ==
    PastResolve => result = <<FALSE, <<text>>>> /\ calls = <<>>

\* C25 as stated: on every supported platform the bundled path is tried
\* first and the system-installed one only when the bundled one does not
\* resolve; resolution fails with not-found only when neither resolves.
C25_BundledFirstEverywhere ==
    SupportedPlatform =>
        IF engine_env.bundled THEN EngineFound(BundledPath)
        ELSE IF SystemInstalled THEN EngineFound("ffmpeg")
        ELSE EngineMissing("FFmpeg binary not found at bundled path")

\* C25 (amended): on Windows and macOS only the bundled path is tried and
\* resolution fails with not-found when it does not exist, whatever is
\* installed; on Linux the system-installed ffmpeg is used first when
\* /usr/bin/ffmpeg or /usr/local/bin/ffmpeg exists, the bundled path only
\* otherwise, and resolution fails with not-found when neither exists; any
\* other platform fails as unsupported.
C25_ResolutionByPlatform ==
    /\ engine_env.platform \in {"win32", "darwin"} =>
          IF engine_env.bundled THEN EngineFound(BundledPath)
          ELSE EngineMissing("FFmpeg binary not found at bundled path")
    /\ engine_env.platform = "linux" =>
          IF SystemInstalled THEN EngineFound("ffmpeg")
          ELSE IF engine_env.bundled THEN EngineFound("bundled/ffmpeg")
          ELSE EngineMissing("FFmpeg binary not found at bundled path")
    /\ ~SupportedPlatform => EngineMissing("Unsupported platform")

\* a Linux machine with both binaries ran a stage with the installed one
C25_Witness ==
    /\ engine_env.platform = "linux"
    /\ engine_env.bundled
    /\ SystemInstalled
    /\ job_pc = "returned"
    /\ Len(calls) >= 1
    /\ calls[1].cmd.ffmpeg = "ffmpeg"
    /\ calls[1].result = "ok"

----------------------------------------------------------------------------
(* The stream selector of Extract                                          *)

ExtractCalls(cs) == {k \in 1..Len(cs) : cs[k].cmd.op = "Extract"}

\* C26: for the 1-based audio track n the Extract command selects the audio
\* stream 0:a:(n-1), whatever the other flags are and whether Extract
\* writes a temporary file or the final output.
C26_ExtractSelectsTrackMinusOne ==
    \A k \in ExtractCalls(calls) :
        /\ calls[k].cmd.map = <<"0:a:", preferences.audio_track - 1>>
        /\ calls[k].cmd.map[2] >= 0
        /\ calls[k].cmd.output \in {OutputPath, get_temp_path(OutputPath, 1)}

\* track 2 was extracted as stream 0:a:1, once into a temporary file
C26_Witness ==
    /\ preferences.audio_track = 2
    /\ preferences.normalize_audio
    /\ job_pc = "returned"
    /\ ExtractCalls(calls) = {1}
    /\ calls[1].cmd.map = <<"0:a:", 1>>
    /\ calls[1].cmd.output = get_temp_path(OutputPath, 1)
    /\ calls[1].result = "ok"

----------------------------------------------------------------------------
(* Stage ordering inside a job                                             *)

\* the calls before call k that wrote the path call k reads
ProducersOf(cs, k) == {j \in 1..(k - 1) : cs[j].cmd.output = cs[k].cmd.input}

Latest(S) == CHOOSE j \in S : \A i \in S : i <= j

\* C27: a stage is invoked only after the stage that produced its input has
\* exited, and only if that stage succeeded: when a stage is invoked no
\* earlier stage is still running, and the latest earlier stage that wrote
\* the path it reads returned success.  The output of a failed ML segmenter
\* is never read, and Normalize follows a successful silence stage.
C27_StageAfterSuccessfulProducer ==
    \A k \in 1..Len(calls) :
        /\ \A j \in 1..(k - 1) : calls[j].result \in {"ok", "failed"}
        /\ IF calls[k].cmd.op = "Extract"
             THEN k = 1 /\ ProducersOf(calls, k) = {}
             ELSE /\ ProducersOf(calls, k) # {}
                  /\ calls[Latest(ProducersOf(calls, k))].result = "ok"
        /\ (calls[k].cmd.op = "Normalize" /\ Branch = "three") =>
               calls[k - 1].cmd.op \in {"MLSegment", "SilenceRemove"}
                 /\ calls[k - 1].result = "ok"

\* Normalize ran on the fallback's output after the ML segmenter had failed
C27_Witness ==
    /\ Len(calls) = 4
    /\ calls[2].cmd.op = "MLSegment"
    /\ calls[2].result = "failed"
    /\ calls[3].cmd.op = "SilenceRemove"
    /\ calls[3].result = "ok"
    /\ calls[4].cmd.op = "Normalize"
    /\ calls[4].cmd.input = calls[2].cmd.output
    /\ Latest(ProducersOf(calls, 4)) = 3

----------------------------------------------------------------------------
(* cleanup_temp_files in the finally clause                                *)

TempPaths == {temp_files[k] : k \in 1..Len(temp_files)}

\* what one run of cleanup_temp_files does to the job and the directory
CleanupStep ==
    /\ job_pc' = "returned"
    /\ result' = result
    /\ temp_files' = temp_files
    /\ disk' \subseteq disk
    /\ (disk \ disk') \subseteq TempPaths
    /\ \A p \in TempPaths : p \in disk' => (p \in disk /\ cleanup_failed')
    /\ cleanup_failed' => \E p \in TempPaths : p \in disk'

\* C28: cleanup_temp_files tries every allocated temp path, also after an
\* earlier deletion failed and for a path that was never created: it always
\* returns, leaves the job's (success, error) result as it was, removes
\* nothing else, and a temp path is left only when it existed and a
\* deletion failed.
C28_CleanupNeverChangesResult ==
    [][job_pc = "finally" => CleanupStep]_vars

\* a failed job whose temp1 could not be deleted: temp2, written before,
\* was deleted all the same and the failure is still the result
C28_Witness ==
    /\ job_pc = "returned"
    /\ Len(temp_files) = 2
    /\ cleanup_failed
    /\ temp_files[1] \in disk
    /\ temp_files[2] \notin disk
    /\ \E k \in 1..Len(calls) : calls[k].cmd.output = temp_files[2] /\ calls[k].result = "ok"
    /\ ~result[1]

----------------------------------------------------------------------------
(* Short runs and the gap merge (checked under SpecSettings)               *)

\* the voice runs of step 1 that are at least the minimum speech duration
LongRuns(runs, min_speech) ==
    {j \in 1..Len(runs) : (runs[j][2] - runs[j][1]) >= min_speech}

\* the last frame is voice and the frame before it, if any, is not
LastFrameOnlyRun(frames) ==
    /\ Len(frames) > 0
    /\ frames[Len(frames)][3]
    /\ Len(frames) > 1 => ~frames[Len(frames) - 1][3]

SetLastSilent(frames) ==
    [frames EXCEPT ![Len(frames)] = <<@[1], @[2], FALSE>>]

\* frames voice, non-voice, voice, non-voice, voice at 0, 16, 32, 48, 64 ms
ShortRunFrames ==
    <<<<0, 90, TRUE>>, <<16, 10, FALSE>>, <<32, 90, TRUE>>, <<48, 10, FALSE>>,
      <<64, 90, TRUE>>>>

\* C29: runs shorter than the minimum speech duration are dropped before
\* the gap merge.  When every run is short no segment is returned, however
\* close the runs are; every returned segment contains a run that is long
\* enough, and without padding it starts and ends at such runs.  A run that
\* is only the last frame has duration 0, and with a positive minimum
\* speech duration the result is the same as if that frame were non-voice.
C29_ShortRunsDroppedBeforeMerge ==
    mpc = "returned" =>
        LET runs == VoiceRegions(frame_results)
            long == LongRuns(runs, thresholds.min_speech)
            last == frame_results[Len(frame_results)][1]
        IN  /\ long = {} => segments = <<>>
            /\ \A k \in 1..Len(segments) :
                 \E j \in long : /\ segments[k][1] <= runs[j][1]
                                 /\ runs[j][2] <= segments[k][2]
            /\ thresholds.pad = 0 =>
                 \A k \in 1..Len(segments) :
                     \E i \in long, j \in long : segments[k] = <<runs[i][1], runs[j][2]>>
            /\ LastFrameOnlyRun(frame_results) =>
                 /\ runs[Len(runs)] = <<last, last>>
                 /\ thresholds.min_speech > 0 =>
                      /\ Len(runs) \notin long
                      /\ segments = MergeFramesWith(SetLastSilent(frame_results),
                                         thresholds.min_speech, thresholds.min_silence,
                                         thresholds.pad)

\* three 0 or 16 ms runs, 16 ms apart, under min-speech 32 ms and
\* min-silence 48 ms: nothing is returned
C29_Witness ==
    /\ mpc = "returned"
    /\ frame_results = ShortRunFrames
    /\ thresholds.min_speech = 32
    /\ thresholds.min_silence = 48
    /\ Len(VoiceRegions(frame_results)) = 3
    /\ Gap(VoiceRegions(frame_results), 1) <= thresholds.min_silence
    /\ segments = <<>>

----------------------------------------------------------------------------
(* The filter graph of apply_ten_vad                                       *)

\* C30: for a non-empty segment list the filter graph has exactly one trim
\* clip per segment, with that segment's start and end, taken from the
\* input stream; the clips are concatenated in segment order and the clip
\* count equals the number of segments.  The command reads the
\* original-quality input of the ML stage, never the 16 kHz file.
C30_OneClipPerSegment ==
    \A c \in 1..Len(concat_cmds) :
        LET cmd  == concat_cmds[c]
            f    == cmd.filter_complex
            segs == merge_frames_to_segments(ml_frames)
        IN  /\ Len(segs) > 0
            /\ f.n = Len(segs)
            /\ Len(f.clips) = Len(segs)
            /\ \A i \in 1..Len(segs) :
                 /\ f.clips[i].src = "0:a"
                 /\ f.clips[i].start = segs[i][1]
                 /\ f.clips[i].end = segs[i][2]
                 /\ f.inputs[i] = f.clips[i].label
                 /\ \A j \in 1..Len(segs) : f.clips[i].label = f.clips[j].label => i = j
            /\ Len(f.inputs) = f.n
            /\ \E k \in 1..Len(calls) :
                 /\ calls[k].cmd.op = "MLSegment"
                 /\ cmd.input = calls[k].cmd.input
                 /\ cmd.output = calls[k].cmd.output
            /\ cmd.input = get_temp_path(OutputPath, 1)
            /\ cmd.input # Temp16kPath(get_temp_path(OutputPath, 1))

\* two segments were cut from temp1 and concatenated successfully
C30_Witness ==
    /\ Len(concat_cmds) = 1
    /\ concat_cmds[1].filter_complex.n = 2
    /\ concat_cmds[1].filter_complex.clips[1].end < concat_cmds[1].filter_complex.clips[2].start
    /\ Len(calls) = 2
    /\ calls[2].cmd.op = "MLSegment"
    /\ calls[2].result = "ok"
    /\ Temp16kPath(concat_cmds[1].input) \notin disk

----------------------------------------------------------------------------
(* The value convert_video_to_audio returns                                *)

\* (True, "") or (False, message)
ResultShape(r) ==
    /\ r[1] \in BOOLEAN
    /\ r[1] => r[2] = <<>>
    /\ ~r[1] => Len(r[2]) > 0

StageSucceeded(cs, op) == \E k \in 1..Len(cs) : cs[k].cmd.op = op /\ cs[k].result = "ok"

\* C31: convert_video_to_audio never lets an exception out.  Whatever
\* fails (engine not found, a stage, an exception in the segmenter) the
\* call returns (True, "") or (False, message), and process_files receives
\* exactly that value; it returns success only if the engine resolved and
\* Extract, the effective silence step (ML segmenter or its fallback) and
\* Normalize, as enabled, each reported success.
C31_AlwaysReturnsAResult ==
    /\ \A k \in 1..Len(job_results) : ResultShape(job_results[k])
    /\ Len(job_results) = file_index - 1
    /\ JobReturned =>
         /\ ResultShape(result)
         /\ result[1] =>
              /\ get_ffmpeg_path(engine_env).ok
              /\ StageSucceeded(calls, "Extract")
              /\ preferences.remove_silence =>
                   StageSucceeded(calls, "MLSegment") \/ StageSucceeded(calls, "SilenceRemove")
              /\ preferences.normalize_audio => StageSucceeded(calls, "Normalize")
         /\ (~get_ffmpeg_path(engine_env).ok \/ calls[Len(calls)].result = "failed")
              => ~result[1]

\* the engine was not found: the exception came back as (False, message)
\* and the batch went on to collect it
C31_Witness ==
    /\ ~get_ffmpeg_path(engine_env).ok
    /\ Len(job_results) = 1
    /\ job_results[1] = <<FALSE, <<get_ffmpeg_path(engine_env).value>>>>
    /\ JobReturned
    /\ calls = <<>>
    /\ result = job_results[1]

----------------------------------------------------------------------------
(* The paths of the jobs of one batch                                      *)

\* the final output paths of the other files of the batch
OtherOutputs ==
    {get_output_path(video_files[j]) : j \in (1..Len(video_files)) \ {file_index}}

\* C32: within one batch no job writes to or deletes the final output path
\* of a different job: no stage of the running job has such a path as its
\* target, and neither temp cleanup nor the removal of the resampled file
\* touches one; this includes files that share a stem and differ in
\* extension.
C32_NoJobTouchesAnotherOutput ==
    InJob =>
        /\ \A k \in 1..Len(calls) : calls[k].cmd.output \notin OtherOutputs
        /\ \A k \in 1..Len(temp_files) : temp_files[k] \notin OtherOutputs
        /\ Temp16kPath(get_temp_path(OutputPath, 1)) \notin OtherOutputs

\* a.mkv and a.mp4: both jobs succeeded and the second wrote the first's
\* output path
C32_Witness ==
    /\ video_files = <<<<"a", ".mkv">>, <<"a", ".mp4">>>>
    /\ file_index = 2
    /\ job_results = <<Success>>
    /\ JobReturned
    /\ result = Success
    /\ calls[Len(calls)].cmd.output = get_output_path(video_files[1])
    /\ calls[Len(calls)].result = "ok"

\* the four paths of the running job
JobPaths ==
    <<InputPath, get_temp_path(OutputPath, 1), get_temp_path(OutputPath, 2), OutputPath>>

\* what every state of a job satisfies
JobPathsApart ==
    InJob =>
        /\ \A i, j \in 1..4 : i # j => JobPaths[i] # JobPaths[j]
        /\ Lower(Suffix(InputPath)) \in SUPPORTED_VIDEO_EXTENSIONS
        /\ \A k \in 1..Len(calls) :
             /\ calls[k].cmd.output \in {JobPaths[2], JobPaths[3], JobPaths[4]}
             /\ calls[k].cmd.output # calls[k].cmd.input
        /\ \A k \in 1..Len(concat_cmds) : concat_cmds[k].output # InputPath
        /\ \A k \in 1..Len(temp_files) : temp_files[k] \in {JobPaths[2], JobPaths[3]}
        /\ Temp16kPath(JobPaths[2]) \notin {JobPaths[1], JobPaths[4]}

\* what every step of a job does to the source and the final output
KeepsSourceAndOutput ==
    InJob =>
        /\ InputPath \in disk => InputPath \in disk'
        /\ (job_pc = "finally" /\ OutputPath \in disk) => OutputPath \in disk'

\* C33: for every discovered input and every flag combination the job's
\* source path, temp1, temp2 and final output path are pairwise distinct;
\* no stage writes to the source path, no step deletes it, and cleanup
\* deletes only temp1 and temp2, never the final output path.
C33_JobPathsDistinct ==
    []JobPathsApart /\ [][KeepsSourceAndOutput]_vars

\* a three-step job on B.MKV is done: source and output exist, the temps
\* are gone
C33_Witness ==
    /\ JobReturned
    /\ InputPath = <<"B", ".MKV">>
    /\ Len(temp_files) = 2
    /\ StageOps(calls) = <<"Extract", "SilenceRemove", "Normalize">>
    /\ AllStagesOk(calls)
    /\ {InputPath, OutputPath} \subseteq disk
    /\ temp_files[1] \notin disk
    /\ temp_files[2] \notin disk

----------------------------------------------------------------------------
(* The package orchestrator, video_to_audio.converter, as a function of    *)
(* the outcome each stage kind has                                         *)

\* file_utils.get_output_path: input_file.with_suffix('.m4a')
pkg_get_output_path(input_path) == <<Stem(input_path), OUTPUT_EXTENSION>>

\* ffmpeg_commands.get_ffmpeg_path: the binaries are under ffmpeg/<platform>/
pkg_get_ffmpeg_path(env) ==
    IF env.platform \notin {"win32", "darwin", "linux"}
      THEN [ok |-> FALSE, value |-> "Unsupported platform"]
    ELSE LET ffmpeg ==
               IF env.platform = "win32" THEN "bundled/windows/ffmpeg.exe"
               ELSE IF env.platform = "darwin" THEN "bundled/macos/ffmpeg"
               ELSE IF ~env.usr_bin /\ ~env.usr_local_bin THEN "bundled/linux/ffmpeg"
               ELSE "ffmpeg"
         IN  IF env.platform = "linux" /\ ffmpeg = "ffmpeg"
               THEN [ok |-> TRUE, value |-> "ffmpeg"]
             ELSE IF ~env.bundled
               THEN [ok |-> FALSE,
                     value |-> "FFmpeg binary not found at bundled platform path"]
             ELSE [ok |-> TRUE, value |-> ffmpeg]

StageKinds == {"Extract", "SilenceRemove", "Normalize"}

\* (success, error) of run_ffmpeg_command for each kind of stage
StagePatterns ==
    [StageKinds -> {[ok |-> TRUE, error |-> <<>>]}
                     \cup {[ok |-> FALSE, error |-> d] : d \in Diagnostics}]

\* the branch taken when silence removal and normalization are both asked
\* for is the two-step silence branch
PkgPipelineNoThreeStep(prefs) ==
    IF prefs.remove_silence THEN "silence"
    ELSE IF prefs.normalize_audio THEN "normalize"
    ELSE "single"

\* converter.py: if remove_silence and normalize_audio / elif remove_silence /
\* elif normalize_audio / else
PkgPipeline(prefs) ==
    IF prefs.remove_silence /\ prefs.normalize_audio THEN "three"
    ELSE IF prefs.remove_silence THEN "silence"
    ELSE IF prefs.normalize_audio THEN "normalize"
    ELSE "single"

PkgRun(cmd, pattern) ==
    [cmd |-> cmd, result |-> IF pattern[cmd.op].ok THEN "ok" ELSE "failed",
     error |-> pattern[cmd.op].error]

\* the steps of one branch run in order until one fails
RECURSIVE PkgSteps(_, _, _, _)
PkgSteps(cmds, labels, pattern, done) ==
    IF cmds = <<>> THEN [calls |-> done, result |-> <<TRUE, <<>>>>]
    ELSE IF ~pattern[Head(cmds).op].ok
      THEN [calls  |-> Append(done, PkgRun(Head(cmds), pattern)),
            result |-> <<FALSE, <<Head(labels), ": ">> \o pattern[Head(cmds).op].error>>]
    ELSE PkgSteps(Tail(cmds), Tail(labels), pattern,
                  Append(done, PkgRun(Head(cmds), pattern)))

\* converter.convert_video_to_audio: the stage calls, the returned tuple and
\* the list given to cleanup_temp_files
pkg_convert_video_to_audio(input_path, prefs, env, pattern) ==
    LET ffmpeg_path == pkg_get_ffmpeg_path(env)
        output_path == pkg_get_output_path(input_path)
        temp1       == get_temp_path(output_path, 1)
        temp2       == get_temp_path(output_path, 2)
        branch      == PkgPipeline(prefs)
        extract(target) ==
            build_base_conversion_command(ffmpeg_path.value, input_path, target,
                                          prefs.audio_track)
        silence(source, target) ==
            build_silence_removal_command(ffmpeg_path.value, source, target)
        normalize(source) ==
            build_normalization_command(ffmpeg_path.value, source, output_path)
        run(cmds, labels, temps) ==
            [calls      |-> PkgSteps(cmds, labels, pattern, <<>>).calls,
             result     |-> PkgSteps(cmds, labels, pattern, <<>>).result,
             temp_files |-> temps]
    IN  IF ~ffmpeg_path.ok
          THEN [calls |-> <<>>, result |-> <<FALSE, <<ffmpeg_path.value>>>>,
                temp_files |-> <<>>]
        ELSE IF branch = "three"
          THEN run(<<extract(temp1), silence(temp1, temp2), normalize(temp2)>>,
                   <<"Base conversion failed", "Silence removal failed",
                     "Normalization failed">>,
                   <<temp1, temp2>>)
        ELSE IF branch = "silence"
          THEN run(<<extract(temp1), silence(temp1, output_path)>>,
                   <<"Base conversion failed", "Silence removal failed">>,
                   <<temp1>>)
        ELSE IF branch = "normalize"
          THEN run(<<extract(temp1), normalize(temp1)>>,
                   <<"Base conversion failed", "Normalization failed">>,
                   <<temp1>>)
        ELSE run(<<extract(output_path)>>, <<"Conversion failed">>, <<>>)

\* what a path is to a job with this source and this final output
RoleOf(path, source, output) ==
    CASE path = source -> "source"
      [] path = output -> "output"
      [] path = get_temp_path(output, 1) -> "temp1"
      [] path = get_temp_path(output, 2) -> "temp2"
      [] OTHER -> "other"

\* a stage call without the names of its files and of the engine binary
Wiring(call, source, output) ==
    [op     |-> call.cmd.op,
     input  |-> RoleOf(call.cmd.input, source, output),
     output |-> RoleOf(call.cmd.output, source, output),
     track  |-> IF call.cmd.op = "Extract" THEN call.cmd.map ELSE <<>>,
     result |-> call.result,
     error  |-> call.error]

\* the pattern agrees with what the stages of the job returned
AgreesWith(pattern, cs) ==
    \A k \in 1..Len(cs) :
        /\ pattern[cs[k].cmd.op].ok = (cs[k].result = "ok")
        /\ pattern[cs[k].cmd.op].error = cs[k].error

----------------------------------------------------------------------------
(* The diagnostic log (checked under SpecLog)                              *)

ConcatFailure == <<"TEN VAD failed: ", "Failed to concatenate speech segments: ">>

\* C35: a failure while writing the diagnostic log is swallowed.  The job
\* opens log.txt once, for appending, and the lines that reach it are the
\* lines of the classifier frames in order, one per frame when nothing
\* failed.  Whether or not the writing failed, the segments are those of
\* the frames, the fallback is triggered only by an empty segment list or a
\* failed concatenation, the job's result depends on its stages alone, and
\* no stage reads, writes or removes log.txt.
C35_LogFailureSwallowed ==
    /\ Len(log_writes) <= 1
    /\ log_warned => Len(log_writes) = 1
    /\ \A w \in 1..Len(log_writes) :
         /\ log_writes[w].mode = "a"
         /\ Len(log_writes[w].lines) <= Len(ml_frames)
         /\ ~log_warned => Len(log_writes[w].lines) = Len(ml_frames)
         /\ \A i \in 1..Len(log_writes[w].lines) :
              log_writes[w].lines[i] = LogLine(OriginalFilename, ml_frames[i])
    /\ job_pc = "ml_concat" =>
         /\ Len(log_writes) = 1
         /\ ml_segments = merge_frames_to_segments(ml_frames)
         /\ ml_warning = <<>>
    /\ (Len(log_writes) = 1 /\ ml_warning # <<>>) =>
         IF Len(merge_frames_to_segments(ml_frames)) = 0
           THEN ml_warning = NoSpeechWarning
           ELSE SubSeq(ml_warning, 1, 2) = ConcatFailure
    /\ (JobReturned /\ Len(log_writes) = 1) =>
         (result[1] <=> \A k \in 1..Len(calls) :
                           calls[k].cmd.op # "MLSegment" => calls[k].result = "ok")
    /\ InJob =>
         /\ \A k \in 1..Len(calls) : LogPath \notin {calls[k].cmd.input, calls[k].cmd.output}
         /\ \A k \in 1..Len(concat_cmds) :
              LogPath \notin {concat_cmds[k].input, concat_cmds[k].output}
         /\ \A k \in 1..Len(temp_files) : temp_files[k] # LogPath
         /\ Temp16kPath(get_temp_path(OutputPath, 1)) # LogPath

\* the writing failed after the first of four lines; the job went on with
\* its two segments and succeeded without the fallback
C35_Witness ==
    /\ log_warned
    /\ JobReturned
    /\ Len(ml_frames) = 4
    /\ Len(log_writes[1].lines) = 1
    /\ Len(concat_cmds) = 1
    /\ concat_cmds[1].filter_complex.n = 2
    /\ StageOps(calls) = <<"Extract", "MLSegment", "Normalize">>
    /\ AllStagesOk(calls)
    /\ ml_warning = <<>>
    /\ result = Success

----------------------------------------------------------------------------
(* Termination (checked under SpecFair)                                    *)

BatchEnded == main_pc \in {"done", "exit"}

\* C36: when every engine process returns, every job reaches its end, with
\* success or failure, after at most 5 engine invocations (Extract,
\* downsample, concatenation, fallback SilenceRemove, Normalize) and through the
\* cleanup of its finally clause, and a batch of N files ends after exactly
\* N jobs.
C36_JobsAndBatchTerminate ==
    /\ [](engine_runs <= 5)
    /\ [][(job_pc # "returned" /\ job_pc' = "returned") => job_pc = "finally"]_vars
    /\ (InJob ~> JobReturned)
    /\ <>[](/\ BatchEnded
            /\ job_pc = "idle"
            /\ convert_calls = video_files
            /\ Len(job_results) = Len(video_files))

\* the second job of a batch ended after five engine invocations
C36_Witness ==
    /\ JobReturned
    /\ file_index = 2
    /\ engine_runs = 5
    /\ StageOps(calls) = <<"Extract", "MLSegment", "SilenceRemove", "Normalize">>
    /\ Len(concat_cmds) = 1


====
